---- MODULE Spec2Model ----
(***************************************************************************)
(* claude-monitor: the session store (sessionManager.js), the file watcher *)
(* (fileWatcher.js) and the stream parser (server.js) as a state machine.  *)
(*                                                                         *)
(* Time is counted in ticks; the thresholds are the environment-           *)
(* configurable values of the source scaled down to a few ticks.  Strings  *)
(* whose length matters (message content, file content) are sequences of   *)
(* characters.  A store operation is an operator from a store value        *)
(* [sessions, agentToSession, events] to a store value, so that a handler  *)
(* is the composition of the calls it makes.                               *)
(***************************************************************************)
EXTENDS Integers, Sequences, FiniteSets, TLC

VARIABLES
    sessions,        \* SessionManager.sessions: id -> session (a Map)
    agentToSession,  \* SessionManager.agentToSession: agentId -> session id
    events,          \* notifyChange calls of the last handler, in order
    now,             \* Date.now()
    files,           \* the log files on disk: path -> [exists, content, mtime,
                     \* truncated: it was truncated while it was tracked,
                     \* truncations: how often it was truncated]
    filePositions,   \* FileWatcher.filePositions: path -> offset, or NoPos
    polled,          \* the last poll: what it saw and handed to the parser
    phase,           \* "boot" before FileWatcher.start(), then "run"
    watch,           \* the project watcher's view of each path
    delivered,       \* path -> the lines handed to processMessage since the
                     \* file was last truncated (end positions, in order)
    last,            \* the handler that ran last, with its arguments
    baseline,        \* path -> the length of the file when a change of it was
                     \* reported while it had no offset (NoPos: never), cleared
                     \* when the file is truncated
    changeListeners, \* SessionManager.changeListeners, in registration order
    calls            \* the listener invocations of the last handler, in order,
                     \* each with the data the listener was handed

vars == <<sessions, agentToSession, events, now, files, filePositions, polled, phase,
          watch, delivered, last, baseline,
          changeListeners, calls>>

-----------------------------------------------------------------------------
(* Program constants (sessionManager.js 6-10, fileWatcher.js 16), in ticks.  *)

SESSION_TIMEOUT_MS == 2
MAX_TOOL_HISTORY == 2
MAX_MESSAGES == 2
IDLE_THRESHOLD_MS == 1
MAX_FILE_AGE_MS == 3
\* the literal 1000 of addMessage's truncate(content, 1000)
MESSAGE_TRUNCATE == 2
\* the literal 200 of handleUserMessage's content.substring(0, 200)
PROMPT_LEN == 1

(* Bounds of the model.                                                      *)
MaxTime == 5
MaxTokens == 3
MaxFileLen == 7
MaxTruncations == 1

NULL == "null"
NullModel == <<>>
NoTool == [name |-> NULL, status |-> NULL]
NoTodos == [defined |-> FALSE, items |-> <<>>]
NoUsage == [present |-> FALSE, input_tokens |-> 0, output_tokens |-> 0,
            cache_read_input_tokens |-> 0, cache_creation_input_tokens |-> 0]

Ids == {"P", "A"}

-----------------------------------------------------------------------------
(* sessionManager.js                                                         *)

\* MODEL_PRICING, per token, in units of 1/100 dollar per million tokens
MODEL_PRICING(modelShort) ==
    IF modelShort = <<"Opus", "4.5">> THEN [input |-> 1500, output |-> 7500]
    ELSE IF modelShort = <<"Sonnet", "4.5">> THEN [input |-> 300, output |-> 1500]
    ELSE IF modelShort = <<"Haiku", "4.5">> THEN [input |-> 25, output |-> 125]
    ELSE [input |-> 300, output |-> 1500]

\* the listener whose callback throws
Throws(listener) == listener = "faulty"

\* listener(eventType, data) inside the try block: the invocation is seen by
\* the listener whether or not it throws afterwards
Invoke(st, listener, eventType, data) ==
    [st EXCEPT !.calls = Append(@, [listener |-> listener, eventType |-> eventType,
                                    data |-> data])]

\* the for loop of notifyChange without its try/catch: the exception of a
\* listener ends the loop
RECURSIVE NotifyFromUncaught(_, _, _, _)
NotifyFromUncaught(st, i, eventType, data) ==
    IF i > Len(st.changeListeners) THEN st
    ELSE LET listener == st.changeListeners[i]
             s1 == Invoke(st, listener, eventType, data)
         IN IF Throws(listener) THEN s1
            ELSE NotifyFromUncaught(s1, i + 1, eventType, data)

\* the for loop of notifyChange from the i-th listener on; the exception of a
\* listener is caught and logged, and the loop goes on with the next listener
RECURSIVE NotifyFrom(_, _, _, _)
NotifyFrom(st, i, eventType, data) ==
    IF i > Len(st.changeListeners) THEN st
    ELSE LET listener == st.changeListeners[i]
             s1 == Invoke(st, listener, eventType, data)
         IN NotifyFrom(s1, i + 1, eventType, data)

\* notifyChange(eventType, data): data is the session as it is at the call,
\* or {id} for a removal; events logs the call itself
notifyChange(st, eventType, id) ==
    LET data == IF id \in DOMAIN st.sessions THEN st.sessions[id] ELSE [id |-> id]
    IN NotifyFrom([st EXCEPT !.events = Append(@, <<eventType, id>>)], 1,
                  eventType, data)

\* onChange(callback)
onChange(st, callback) == [st EXCEPT !.changeListeners = Append(@, callback)]

NewSession(sessionId, timestamp) ==
    [ id |-> sessionId,
      startTime |-> timestamp,
      lastActivity |-> timestamp,
      status |-> "active",
      currentTool |-> NoTool,
      toolHistory |-> <<>>,
      model |-> NullModel,
      modelShort |-> NullModel,
      cwd |-> NULL,
      version |-> NULL,
      gitBranch |-> NULL,
      tokens |-> [input |-> 0, output |-> 0, cacheRead |-> 0,
                  cacheCreation |-> 0, total |-> 0],
      estimatedCost |-> 0,
      messages |-> <<>>,
      parentSessionId |-> NULL,
      agentId |-> NULL,
      subAgents |-> <<>>,
      isSubAgent |-> FALSE,
      prompt |-> <<>>,
      todos |-> NoTodos ]

Has(st, id) == id \in DOMAIN st.sessions

\* getOrCreateSession taking the seed as the last activity of a session that
\* is already in the store
getOrCreateSessionReseeds(st, sessionId, initialTimestamp, t) ==
    IF ~Has(st, sessionId)
    THEN LET timestamp == IF initialTimestamp = 0 THEN t ELSE initialTimestamp
         IN notifyChange(
              [st EXCEPT !.sessions = (sessionId :> NewSession(sessionId, timestamp)) @@ @],
              "session_created", sessionId)
    ELSE [st EXCEPT !.sessions[sessionId].lastActivity =
                        IF initialTimestamp = 0 THEN t ELSE initialTimestamp]

\* getOrCreateSession that creates a session without notifying the listeners
getOrCreateSessionSilent(st, sessionId, initialTimestamp, t) ==
    IF ~Has(st, sessionId)
    THEN LET timestamp == IF initialTimestamp = 0 THEN t ELSE initialTimestamp
         IN [st EXCEPT !.sessions = (sessionId :> NewSession(sessionId, timestamp)) @@ @]
    ELSE IF initialTimestamp = 0
         THEN [st EXCEPT !.sessions[sessionId].lastActivity = t]
         ELSE st

\* initialTimestamp = 0 stands for null (both are falsy in the source)
getOrCreateSession(st, sessionId, initialTimestamp, t) ==
    IF ~Has(st, sessionId)
    THEN LET timestamp == IF initialTimestamp = 0 THEN t ELSE initialTimestamp
         IN notifyChange(
              [st EXCEPT !.sessions = (sessionId :> NewSession(sessionId, timestamp)) @@ @],
              "session_created", sessionId)
    ELSE IF initialTimestamp = 0
         THEN [st EXCEPT !.sessions[sessionId].lastActivity = t]
         ELSE st

Lower(w) ==
    IF w = "Opus" THEN "opus"
    ELSE IF w = "Sonnet" THEN "sonnet"
    ELSE IF w = "Haiku" THEN "haiku"
    ELSE w

\* a model name is the sequence of its '-'-separated parts
parseModelName(model) ==
    IF model = NullModel THEN NullModel
    ELSE IF \E i \in 1..Len(model) : Lower(model[i]) = "opus" THEN <<"Opus", "4.5">>
    ELSE IF \E i \in 1..Len(model) : Lower(model[i]) = "sonnet" THEN <<"Sonnet", "4.5">>
    ELSE IF \E i \in 1..Len(model) : Lower(model[i]) = "haiku" THEN <<"Haiku", "4.5">>
    ELSE SubSeq(model, 2, IF Len(model) < 3 THEN Len(model) ELSE 3)

updateModelInfo(st, sessionId, model, version, t) ==
    LET s1 == getOrCreateSession(st, sessionId, 0, t)
        s2 == IF model # NullModel /\ s1.sessions[sessionId].model = NullModel
              THEN [s1 EXCEPT !.sessions[sessionId].model = model,
                              !.sessions[sessionId].modelShort = parseModelName(model)]
              ELSE s1
        s3 == IF version # NULL /\ s2.sessions[sessionId].version = NULL
              THEN [s2 EXCEPT !.sessions[sessionId].version = version]
              ELSE s2
    IN notifyChange(s3, "session_updated", sessionId)

\* updateCwd writing the directory of every record that carries one
updateCwdOverwrites(st, sessionId, cwd, t) ==
    LET s1 == getOrCreateSession(st, sessionId, 0, t)
    IN IF cwd # NULL
       THEN notifyChange([s1 EXCEPT !.sessions[sessionId].cwd = cwd],
                         "session_updated", sessionId)
       ELSE s1

updateCwd(st, sessionId, cwd, t) ==
    LET s1 == getOrCreateSession(st, sessionId, 0, t)
    IN IF cwd # NULL /\ s1.sessions[sessionId].cwd = NULL
       THEN notifyChange([s1 EXCEPT !.sessions[sessionId].cwd = cwd],
                         "session_updated", sessionId)
       ELSE s1

updateGitBranch(st, sessionId, branch, t) ==
    LET s1 == getOrCreateSession(st, sessionId, 0, t)
    IN IF branch # NULL /\ s1.sessions[sessionId].gitBranch = NULL
       THEN notifyChange([s1 EXCEPT !.sessions[sessionId].gitBranch = branch],
                         "session_updated", sessionId)
       ELSE s1

estimateCost(session) ==
    LET rates == MODEL_PRICING(session.modelShort)
    IN session.tokens.input * rates.input + session.tokens.output * rates.output

\* updateTokenUsage with the total taken before the counters are added to
updateTokenUsageStaleTotal(st, sessionId, usage, t) ==
    IF ~Has(st, sessionId) \/ ~usage.present THEN st
    ELSE LET old == st.sessions[sessionId]
             tok == [input |-> old.tokens.input + usage.input_tokens,
                     output |-> old.tokens.output + usage.output_tokens,
                     cacheRead |-> old.tokens.cacheRead + usage.cache_read_input_tokens,
                     cacheCreation |-> old.tokens.cacheCreation
                                        + usage.cache_creation_input_tokens,
                     total |-> old.tokens.input + old.tokens.output]
             s1 == [old EXCEPT !.tokens = tok]
             s2 == [s1 EXCEPT !.estimatedCost = estimateCost(s1), !.lastActivity = t]
         IN notifyChange([st EXCEPT !.sessions[sessionId] = s2],
                         "session_updated", sessionId)

updateTokenUsage(st, sessionId, usage, t) ==
    IF ~Has(st, sessionId) \/ ~usage.present THEN st
    ELSE LET old == st.sessions[sessionId]
             tok == [input |-> old.tokens.input + usage.input_tokens,
                     output |-> old.tokens.output + usage.output_tokens,
                     cacheRead |-> old.tokens.cacheRead + usage.cache_read_input_tokens,
                     cacheCreation |-> old.tokens.cacheCreation
                                        + usage.cache_creation_input_tokens,
                     total |-> old.tokens.input + usage.input_tokens
                               + old.tokens.output + usage.output_tokens]
             s1 == [old EXCEPT !.tokens = tok]
             s2 == [s1 EXCEPT !.estimatedCost = estimateCost(s1), !.lastActivity = t]
         IN notifyChange([st EXCEPT !.sessions[sessionId] = s2],
                         "session_updated", sessionId)

Dots == <<".", ".", ".">>

truncate(str, maxLength) ==
    IF Len(str) <= maxLength THEN str
    ELSE SubSeq(str, 1, maxLength) \o Dots

\* the last n elements of s: Array.prototype.slice(-n)
LastN(s, n) == IF Len(s) <= n THEN s ELSE SubSeq(s, Len(s) - n + 1, Len(s))

\* the first n elements of s: Array.prototype.slice(0, n)
FirstN(s, n) == IF Len(s) <= n THEN s ELSE SubSeq(s, 1, n)

\* addMessage without the cap on the number of messages
addMessageUncapped(st, sessionId, role, content, t) ==
    IF ~Has(st, sessionId) \/ content = <<>> THEN st
    ELSE LET old == st.sessions[sessionId]
             n == Len(old.messages)
         IN IF n > 0 /\ old.messages[n].content = content /\ old.messages[n].role = role
            THEN st
            ELSE notifyChange(
                   [st EXCEPT !.sessions[sessionId].messages =
                                  Append(old.messages,
                                         [role |-> role,
                                          content |-> truncate(content, MESSAGE_TRUNCATE)]),
                              !.sessions[sessionId].lastActivity = t],
                   "session_updated", sessionId)

\* the stored message; its timestamp and id are not modelled
addMessage(st, sessionId, role, content, t) ==
    IF ~Has(st, sessionId) \/ content = <<>> THEN st
    ELSE LET old == st.sessions[sessionId]
             n == Len(old.messages)
         IN IF n > 0 /\ old.messages[n].content = content /\ old.messages[n].role = role
            THEN st
            ELSE LET pushed == Append(old.messages,
                                      [role |-> role,
                                       content |-> truncate(content, MESSAGE_TRUNCATE)])
                     kept == IF Len(pushed) > MAX_MESSAGES
                             THEN LastN(pushed, MAX_MESSAGES) ELSE pushed
                 IN notifyChange(
                      [st EXCEPT !.sessions[sessionId].messages = kept,
                                 !.sessions[sessionId].lastActivity = t],
                      "session_updated", sessionId)

Includes(seq, x) == \E i \in 1..Len(seq) : seq[i] = x

linkSubAgent(st, parentSessionId, agentId) ==
    IF Has(st, parentSessionId)
       /\ ~Includes(st.sessions[parentSessionId].subAgents, agentId)
    THEN notifyChange(
           [st EXCEPT !.sessions[parentSessionId].subAgents = Append(@, agentId)],
           "session_updated", parentSessionId)
    ELSE st

\* createSubAgent that looks the parent up with getOrCreateSession first,
\* which creates it when it is absent and refreshes its lastActivity otherwise
createSubAgentTouchesParent(st, agentId, parentSessionId, t) ==
    LET s0 == getOrCreateSession(st, parentSessionId, 0, t)
    IN IF ~Has(s0, agentId)
       THEN LET s1 == getOrCreateSession(s0, agentId, 0, t)
                s2 == [s1 EXCEPT !.sessions[agentId].agentId = agentId,
                                 !.sessions[agentId].parentSessionId = parentSessionId,
                                 !.sessions[agentId].isSubAgent = TRUE,
                                 !.agentToSession = (agentId :> agentId) @@ @]
            IN linkSubAgent(s2, parentSessionId, agentId)
       ELSE s0

createSubAgent(st, agentId, parentSessionId, t) ==
    IF ~Has(st, agentId)
    THEN LET s1 == getOrCreateSession(st, agentId, 0, t)
             s2 == [s1 EXCEPT !.sessions[agentId].agentId = agentId,
                              !.sessions[agentId].parentSessionId = parentSessionId,
                              !.sessions[agentId].isSubAgent = TRUE,
                              !.agentToSession = (agentId :> agentId) @@ @]
         IN linkSubAgent(s2, parentSessionId, agentId)
    ELSE st

\* the history entry; duration and completedAt are not modelled
\* completeTool with the entry pushed at the end and the last entries kept
completeToolAppends(st, sessionId, toolName, status, t) ==
    IF ~Has(st, sessionId) THEN st
    ELSE IF st.sessions[sessionId].currentTool = NoTool THEN st
    ELSE LET old == st.sessions[sessionId]
             pushed == Append(old.toolHistory, [name |-> toolName, status |-> status])
         IN notifyChange(
              [st EXCEPT !.sessions[sessionId].toolHistory = LastN(pushed, MAX_TOOL_HISTORY),
                         !.sessions[sessionId].currentTool = NoTool,
                         !.sessions[sessionId].lastActivity = t],
              "tool_completed", sessionId)

completeTool(st, sessionId, toolName, status, t) ==
    IF ~Has(st, sessionId) THEN st
    ELSE IF st.sessions[sessionId].currentTool = NoTool THEN st
    ELSE LET old == st.sessions[sessionId]
             unshifted == <<[name |-> toolName, status |-> status]>> \o old.toolHistory
             kept == IF Len(unshifted) > MAX_TOOL_HISTORY
                     THEN FirstN(unshifted, MAX_TOOL_HISTORY) ELSE unshifted
         IN notifyChange(
              [st EXCEPT !.sessions[sessionId].toolHistory = kept,
                         !.sessions[sessionId].currentTool = NoTool,
                         !.sessions[sessionId].lastActivity = t],
              "tool_completed", sessionId)

\* startTool replacing the open tool without completing it
startToolOverwrites(st, sessionId, toolName, t) ==
    LET s1 == getOrCreateSession(st, sessionId, 0, t)
    IN notifyChange(
         [s1 EXCEPT !.sessions[sessionId].currentTool =
                        [name |-> toolName, status |-> "running"],
                    !.sessions[sessionId].status = "active",
                    !.sessions[sessionId].lastActivity = t],
         "tool_started", sessionId)

\* currentTool's startTime and details are not modelled
startTool(st, sessionId, toolName, t) ==
    LET s1 == getOrCreateSession(st, sessionId, 0, t)
        cur == s1.sessions[sessionId].currentTool
        s2 == IF cur # NoTool /\ cur.status = "running"
              THEN completeTool(s1, sessionId, cur.name, "completed", t)
              ELSE s1
    IN notifyChange(
         [s2 EXCEPT !.sessions[sessionId].currentTool =
                        [name |-> toolName, status |-> "running"],
                    !.sessions[sessionId].status = "active",
                    !.sessions[sessionId].lastActivity = t],
         "tool_started", sessionId)

\* completeSession without the completion of the running tool
completeSessionKeepsTool(st, sessionId, t) ==
    IF ~Has(st, sessionId) THEN st
    ELSE notifyChange(
           [st EXCEPT !.sessions[sessionId].status = "completed",
                      !.sessions[sessionId].lastActivity = t],
           "session_completed", sessionId)

completeSession(st, sessionId, t) ==
    IF ~Has(st, sessionId) THEN st
    ELSE LET cur == st.sessions[sessionId].currentTool
             s1 == IF cur # NoTool /\ cur.status = "running"
                   THEN completeTool(st, sessionId, cur.name, "completed", t)
                   ELSE st
         IN notifyChange(
              [s1 EXCEPT !.sessions[sessionId].status = "completed",
                         !.sessions[sessionId].lastActivity = t],
              "session_completed", sessionId)

\* updateSessionStatus creating the session it does not find
updateSessionStatusCreates(st, sessionId, status, t) ==
    LET s1 == getOrCreateSession(st, sessionId, 0, t)
    IN notifyChange(
         [s1 EXCEPT !.sessions[sessionId].status = status,
                    !.sessions[sessionId].lastActivity = t],
         "session_updated", sessionId)

updateSessionStatus(st, sessionId, status, t) ==
    IF ~Has(st, sessionId) THEN st
    ELSE notifyChange(
           [st EXCEPT !.sessions[sessionId].status = status,
                      !.sessions[sessionId].lastActivity = t],
           "session_updated", sessionId)

updateSessionPrompt(st, sessionId, prompt, t) ==
    LET s1 == getOrCreateSession(st, sessionId, 0, t)
    IN notifyChange(
         [s1 EXCEPT !.sessions[sessionId].prompt = prompt,
                    !.sessions[sessionId].lastActivity = t],
         "session_updated", sessionId)

updateTodos(st, sessionId, todos, t) ==
    IF ~Has(st, sessionId) THEN st
    ELSE notifyChange(
           [st EXCEPT !.sessions[sessionId].todos = [defined |-> TRUE, items |-> todos],
                      !.sessions[sessionId].lastActivity = t],
           "session_updated", sessionId)

getAllSessions(st) == {st.sessions[id] : id \in DOMAIN st.sessions}

getActiveSessions(st) == {s \in getAllSessions(st) : s.status = "active"}

\* SweepOne with the idle test at the threshold included (>= for >)
SweepOneIdleAtThreshold(st, sessionId, t) ==
    LET session == st.sessions[sessionId]
        inactiveTime == t - session.lastActivity
    IN IF inactiveTime > SESSION_TIMEOUT_MS
       THEN notifyChange(
              [st EXCEPT !.sessions = [i \in DOMAIN @ \ {sessionId} |-> @[i]]],
              "session_removed", sessionId)
       ELSE IF session.status = "active" /\ session.currentTool = NoTool
               /\ inactiveTime >= IDLE_THRESHOLD_MS
            THEN notifyChange([st EXCEPT !.sessions[sessionId].status = "idle"],
                              "session_updated", sessionId)
            ELSE st

\* SweepOne sparing the sessions that have a tool open
SweepOneSparesOpenTool(st, sessionId, t) ==
    LET session == st.sessions[sessionId]
        inactiveTime == t - session.lastActivity
    IN IF inactiveTime > SESSION_TIMEOUT_MS /\ session.currentTool = NoTool
       THEN notifyChange(
              [st EXCEPT !.sessions = [i \in DOMAIN @ \ {sessionId} |-> @[i]]],
              "session_removed", sessionId)
       ELSE IF session.status = "active" /\ session.currentTool = NoTool
               /\ inactiveTime > IDLE_THRESHOLD_MS
            THEN notifyChange([st EXCEPT !.sessions[sessionId].status = "idle"],
                              "session_updated", sessionId)
            ELSE st

\* SweepOne that idles a session whatever its status
SweepOneIdlesAnyStatus(st, sessionId, t) ==
    LET session == st.sessions[sessionId]
        inactiveTime == t - session.lastActivity
    IN IF inactiveTime > SESSION_TIMEOUT_MS
       THEN notifyChange(
              [st EXCEPT !.sessions = [i \in DOMAIN @ \ {sessionId} |-> @[i]]],
              "session_removed", sessionId)
       ELSE IF session.currentTool = NoTool /\ inactiveTime > IDLE_THRESHOLD_MS
            THEN notifyChange([st EXCEPT !.sessions[sessionId].status = "idle"],
                              "session_updated", sessionId)
            ELSE st

\* one iteration of the loop of cleanupStaleSessions
SweepOne(st, sessionId, t) ==
    LET session == st.sessions[sessionId]
        inactiveTime == t - session.lastActivity
    IN IF inactiveTime > SESSION_TIMEOUT_MS
       THEN notifyChange(
              [st EXCEPT !.sessions = [i \in DOMAIN @ \ {sessionId} |-> @[i]]],
              "session_removed", sessionId)
       ELSE IF session.status = "active" /\ session.currentTool = NoTool
               /\ inactiveTime > IDLE_THRESHOLD_MS
            THEN notifyChange([st EXCEPT !.sessions[sessionId].status = "idle"],
                              "session_updated", sessionId)
            ELSE st

\* the entries of the Map are visited in a fixed order of the ids
IdOrder == <<"P", "A">>

RECURSIVE SweepFrom(_, _, _)
SweepFrom(st, i, t) ==
    IF i > Len(IdOrder) THEN st
    ELSE SweepFrom(IF Has(st, IdOrder[i]) THEN SweepOne(st, IdOrder[i], t) ELSE st,
                   i + 1, t)

cleanupStaleSessions(st, t) == SweepFrom(st, 1, t)

-----------------------------------------------------------------------------
(* Records: the decoded lines of a log file (spec section 6).                *)

BaseRecord ==
    [ type |-> NULL, sessionId |-> NULL, agentId |-> NULL, cwd |-> NULL,
      gitBranch |-> NULL, version |-> NULL, model |-> NullModel, usage |-> NoUsage,
      text |-> <<>>, blocks |-> <<>>, is_error |-> FALSE, operation |-> NULL ]

Usage(i, o) ==
    [present |-> TRUE, input_tokens |-> i, output_tokens |-> o,
     cache_read_input_tokens |-> 0, cache_creation_input_tokens |-> 0]

TextBlock(text) == [type |-> "text", text |-> text, name |-> NULL]
ToolUse(name) == [type |-> "tool_use", text |-> <<>>, name |-> name]

\* the placeholder prompt 'Warmup'
Warmup == <<"Warmup">>
ShortText == <<"a">>
OtherText == <<"b">>
LongText == <<"a", "b", "c">>

-----------------------------------------------------------------------------
(* fileWatcher.js: the reconciler                                            *)

handleUserMessage(w, sessionId, data, t) ==
    IF data.text # <<>> /\ data.text # Warmup
    THEN addMessage(updateSessionPrompt(w, sessionId, FirstN(data.text, PROMPT_LEN), t),
                    sessionId, "user", data.text, t)
    ELSE w

handleToolUse(w, sessionId, toolUse, t) == startTool(w, sessionId, toolUse.name, t)

RECURSIVE HandleBlocks(_, _, _, _, _)
HandleBlocks(w, sessionId, blocks, i, t) ==
    IF i > Len(blocks) THEN w
    ELSE LET block == blocks[i]
             w1 == IF block.type = "text" /\ block.text # <<>>
                   THEN addMessage(w, sessionId, "assistant", block.text, t)
                   ELSE IF block.type = "tool_use"
                        THEN handleToolUse(w, sessionId, block, t)
                        ELSE w
         IN HandleBlocks(w1, sessionId, blocks, i + 1, t)

handleAssistantMessage(w, sessionId, data, t) ==
    LET w1 == IF data.model # NullModel
              THEN updateModelInfo(w, sessionId, data.model, data.version, t)
              ELSE w
        w2 == IF data.usage.present
              THEN updateTokenUsage(w1, sessionId, data.usage, t)
              ELSE w1
    IN HandleBlocks(w2, sessionId, data.blocks, 1, t)

\* handleToolResult without the error flag
handleToolResultCompletes(w, sessionId, data, t) ==
    IF Has(w, sessionId) /\ w.sessions[sessionId].currentTool # NoTool
    THEN completeTool(w, sessionId, w.sessions[sessionId].currentTool.name,
                      "completed", t)
    ELSE w

handleToolResult(w, sessionId, data, t) ==
    IF Has(w, sessionId) /\ w.sessions[sessionId].currentTool # NoTool
    THEN completeTool(w, sessionId, w.sessions[sessionId].currentTool.name,
                      IF data.is_error THEN "failed" ELSE "completed", t)
    ELSE w

\* isSubAgent of processMessage; agentPath is filePath.includes('/agent-')
IsSubAgent(data, agentPath) ==
    agentPath \/ (data.agentId # NULL /\ data.sessionId # NULL
                  /\ data.agentId # data.sessionId)

\* effectiveSessionId taken from sessionId whenever the record has one
EffectiveSessionIdBySession(data, agentPath) ==
    IF data.sessionId # NULL THEN data.sessionId ELSE data.agentId

EffectiveSessionId(data, agentPath) ==
    IF IsSubAgent(data, agentPath) THEN data.agentId
    ELSE IF data.sessionId # NULL THEN data.sessionId ELSE data.agentId

\* sessionFiles, which the source only writes, is not modelled
processMessage(w, data, agentPath, t) ==
    LET eid == EffectiveSessionId(data, agentPath)
    IN IF eid = NULL THEN w
       ELSE LET w1 == IF IsSubAgent(data, agentPath) /\ data.sessionId # NULL
                         /\ data.agentId # NULL
                      THEN createSubAgent(w, data.agentId, data.sessionId, t)
                      ELSE w
                w2 == IF data.cwd # NULL THEN updateCwd(w1, eid, data.cwd, t) ELSE w1
                w3 == IF data.gitBranch # NULL
                      THEN updateGitBranch(w2, eid, data.gitBranch, t) ELSE w2
            IN CASE data.type = "user" -> handleUserMessage(w3, eid, data, t)
                 [] data.type = "assistant" -> handleAssistantMessage(w3, eid, data, t)
                 [] data.type = "tool_result" -> handleToolResult(w3, eid, data, t)
                 [] data.type = "result" -> completeSession(w3, eid, t)
                 [] data.type = "queue-operation" ->
                        IF data.operation = "dequeue"
                        THEN getOrCreateSession(w3, eid, 0, t) ELSE w3
                 [] OTHER -> w3

-----------------------------------------------------------------------------
(* server.js: the stream parser                                              *)

BaseChunk == [type |-> NULL, session_id |-> NULL, content |-> <<>>, is_error |-> FALSE]

RECURSIVE StreamBlocks(_, _, _, _, _)
StreamBlocks(st, sessionId, content, i, t) ==
    IF i > Len(content) THEN st
    ELSE StreamBlocks(IF content[i].type = "tool_use"
                      THEN startTool(st, sessionId, content[i].name, t)
                      ELSE st,
                      sessionId, content, i + 1, t)

streamToolResult(st, sessionId, result, t) ==
    LET toolName == IF Has(st, sessionId) /\ st.sessions[sessionId].currentTool # NoTool
                    THEN st.sessions[sessionId].currentTool.name
                    ELSE "Unknown"
    IN completeTool(st, sessionId, toolName,
                    IF result.is_error THEN "failed" ELSE "completed", t)

parseStreamChunk(st, jsonData, t) ==
    LET sessionId == IF jsonData.session_id # NULL THEN jsonData.session_id ELSE "unknown"
    IN CASE jsonData.type = "init" -> getOrCreateSession(st, sessionId, 0, t)
         [] jsonData.type = "user" -> updateSessionStatus(st, sessionId, "active", t)
         [] jsonData.type = "assistant" ->
                StreamBlocks(st, sessionId, jsonData.content, 1, t)
         [] jsonData.type = "tool_result" -> streamToolResult(st, sessionId, jsonData, t)
         [] jsonData.type = "result" -> completeSession(st, sessionId, t)
         [] jsonData.type = "error" -> updateSessionStatus(st, sessionId, "error", t)
         [] OTHER -> getOrCreateSession(st, sessionId, 0, t)

-----------------------------------------------------------------------------
(* fileWatcher.js: files, offsets and polls                                  *)
(*                                                                           *)
(* A file's content is a sequence of characters.  A record line is the two   *)
(* characters head and tail of one record followed by a newline, so that a   *)
(* line can be cut in the middle; JSON.parse accepts exactly a head followed *)
(* by the tail of the same record.  A character occupies one UTF-16 code     *)
(* unit and `bytes` bytes on disk.                                           *)

Paths == {"P.jsonl", "agent-A.jsonl"}
\* readdirSync order
PathOrder == <<"P.jsonl", "agent-A.jsonl">>
NoPos == -1
NoFile == [exists |-> FALSE, content |-> <<>>, mtime |-> 0, truncated |-> FALSE,
           truncations |-> 0]
NoPoll == [path |-> NULL, from |-> 0, size |-> 0, outcome |-> "none", content |-> <<>>]

\* filePath.includes('/agent-'), file.startsWith('agent-')
IsAgentPath(filePath) == filePath = "agent-A.jsonl"

\* filename.match(/^([a-f0-9-]{36})/): P.jsonl stands for <uuid of P>.jsonl
FilenameId(filePath) == IF filePath = "P.jsonl" THEN "P" ELSE NULL

NL == [kind |-> "nl", rec |-> NULL, bytes |-> 1]
HeadCh(r) == [kind |-> "head", rec |-> r, bytes |-> 1]
TailCh(r, b) == [kind |-> "tail", rec |-> r, bytes |-> b]

\* a character that is no part of a JSON value
JunkCh == [kind |-> "junk", rec |-> NULL, bytes |-> 1]

\* the line `null`: JSON.parse returns null, and reading a property of it
\* throws a TypeError
NullLine == <<HeadCh("null"), TailCh("null", 1), NL>>
IsNull(line) == line[1].rec = "null"

\* the records the writers of this model put into files
FileRecord(r) ==
    CASE r = "user" -> [BaseRecord EXCEPT !.type = "user", !.sessionId = "P",
                                          !.cwd = "/w", !.text = ShortText]
      [] r = "asst" -> [BaseRecord EXCEPT !.type = "assistant", !.sessionId = "P",
                                          !.usage = Usage(1, 0),
                                          !.blocks = <<ToolUse("Bash")>>]
      [] r = "sub" -> [BaseRecord EXCEPT !.type = "assistant", !.sessionId = "P",
                                         !.agentId = "A", !.usage = Usage(0, 1)]

RECURSIVE ByteLen(_)
ByteLen(chars) ==
    IF chars = <<>> THEN 0 ELSE chars[1].bytes + ByteLen(SubSeq(chars, 2, Len(chars)))

\* the bytes of the characters, in order
RECURSIVE BytesOf(_)
BytesOf(chars) ==
    IF chars = <<>> THEN <<>>
    ELSE [k \in 1..chars[1].bytes |-> <<chars[1], k>>]
         \o BytesOf(SubSeq(chars, 2, Len(chars)))

\* String.prototype.substring(n): the code units from index n on
Substring(chars, n) == IF n >= Len(chars) THEN <<>> ELSE SubSeq(chars, n + 1, Len(chars))

\* split('\n').filter(line => line.trim()): the non-empty lines with the index
\* of their last character
RECURSIVE Lines(_, _, _, _)
Lines(chars, i, cur, acc) ==
    LET closed == IF cur # <<>> THEN Append(acc, [line |-> cur, end |-> i - 1]) ELSE acc
    IN IF i > Len(chars) THEN closed
       ELSE IF chars[i].kind = "nl" THEN Lines(chars, i + 1, <<>>, closed)
       ELSE Lines(chars, i + 1, Append(cur, chars[i]), acc)

\* JSON.parse(line) succeeds
Parses(line) ==
    /\ Len(line) = 2
    /\ line[1].kind = "head"
    /\ line[2].kind = "tail"
    /\ line[1].rec = line[2].rec

\* the loop over the lines of processNewLines without the try/catch around a
\* line: the first line that fails ends the loop
RECURSIVE ProcessLinesUncaught(_, _, _, _, _, _)
ProcessLinesUncaught(w, filePath, lines, i, base, t) ==
    IF i > Len(lines) THEN w
    ELSE LET l == lines[i]
         IN IF Parses(l.line) /\ ~IsNull(l.line)
            THEN ProcessLinesUncaught(
                   [processMessage(w, FileRecord(l.line[1].rec),
                                   IsAgentPath(filePath), t)
                      EXCEPT !.delivered[filePath] = Append(@, base + l.end)],
                   filePath, lines, i + 1, base, t)
            ELSE w

\* the loop over the lines of processNewLines; base is the index in the file
\* of the first character of the new content.  A line that JSON.parse rejects,
\* and a line whose processMessage throws (data is null, line 316), is caught
\* and the loop goes on
RECURSIVE ProcessLines(_, _, _, _, _, _)
ProcessLines(w, filePath, lines, i, base, t) ==
    IF i > Len(lines) THEN w
    ELSE LET l == lines[i]
             w1 == IF Parses(l.line) /\ ~IsNull(l.line)
                   THEN [processMessage(w, FileRecord(l.line[1].rec),
                                        IsAgentPath(filePath), t)
                           EXCEPT !.delivered[filePath] = Append(@, base + l.end)]
                   ELSE w
         IN ProcessLines(w1, filePath, lines, i + 1, base, t)

\* io: "ok", or the call that throws ("stat", "read")
processNewLines(w, filePath, t, io) ==
    IF ~files[filePath].exists \/ io = "stat" THEN w
    ELSE LET content == files[filePath].content
             currentSize == ByteLen(content)
             lastPosition == IF w.filePositions[filePath] = NoPos THEN 0
                             ELSE w.filePositions[filePath]
             seen == [path |-> filePath, from |-> lastPosition, size |-> currentSize,
                      outcome |-> "same", content |-> <<>>]
         IN IF currentSize < lastPosition
            THEN [w EXCEPT !.filePositions[filePath] = 0,
                           !.polled = [seen EXCEPT !.outcome = "shrunk"]]
            ELSE IF currentSize = lastPosition THEN [w EXCEPT !.polled = seen]
            ELSE IF io = "read" THEN w
            ELSE LET newContent == Substring(content, lastPosition)
                     w1 == [w EXCEPT !.filePositions[filePath] = currentSize,
                                     !.polled = [seen EXCEPT !.outcome = "read",
                                                             !.content = newContent]]
                 IN ProcessLines(w1, filePath, Lines(newContent, 1, <<>>, <<>>), 1,
                                 Len(content) - Len(newContent), t)

\* io = "added": the statSync of handleFileAdded itself throws
handleFileAdded(w, filePath, t, io) ==
    IF ~files[filePath].exists \/ io = "added" THEN w
    ELSE IF t - files[filePath].mtime > MAX_FILE_AGE_MS THEN w
    ELSE processNewLines([w EXCEPT !.filePositions[filePath] = 0], filePath, t, io)

\* io = "changed": the statSync of handleFileChanged itself throws
handleFileChanged(w, filePath, t, io) ==
    LET w0 == IF w.filePositions[filePath] = NoPos
              THEN [w EXCEPT !.baseline[filePath] = Len(files[filePath].content)]
              ELSE w
        w1 == IF w.filePositions[filePath] = NoPos
              THEN IF ~files[filePath].exists \/ io = "changed"
                   THEN [w0 EXCEPT !.filePositions[filePath] = 0]
                   ELSE [w0 EXCEPT !.filePositions[filePath] =
                                       ByteLen(files[filePath].content)]
              ELSE w0
    IN processNewLines(w1, filePath, t, io)

\* the todo files: <id of P>.json and <id of P>-agent-<id of P>.json
TodoPaths == {"P.json", "P-agent-P.json"}

\* filename.match(/^([a-f0-9-]+)/)[1]: the longest prefix of hexadecimal
\* digits and dashes; an id is made of such characters, and so are the '-'
\* and the 'a' of "-agent-"
TodoFilenameId(filePath) == IF filePath = "P.json" THEN "P" ELSE "P-a"

\* the content of a todo file: no JSON, or a JSON list
NoJson == [valid |-> FALSE, todos |-> <<>>]
TodoList(todos) == [valid |-> TRUE, todos |-> todos]

\* content is what readFileSync returns; JSON.parse throws on content that is
\* no JSON, and the catch ignores the error
handleTodoChanged(w, filePath, content, t) ==
    IF ~content.valid THEN w
    ELSE IF Len(content.todos) > 0
         THEN updateTodos(w, TodoFilenameId(filePath), content.todos, t)
         ELSE w

RECURSIVE FirstId(_, _)
FirstId(lines, i) ==
    IF i > Len(lines) \/ i > 10 THEN NULL
    ELSE IF Parses(lines[i].line) /\ ~IsNull(lines[i].line)
         THEN LET data == FileRecord(lines[i].line[1].rec)
                  sessionId == IF data.sessionId # NULL THEN data.sessionId
                               ELSE data.agentId
              IN IF sessionId # NULL THEN sessionId ELSE FirstId(lines, i + 1)
         ELSE FirstId(lines, i + 1)

extractSessionIdFromFile(filePath) ==
    LET found == FirstId(Lines(files[filePath].content, 1, <<>>, <<>>), 1)
    IN IF found # NULL THEN found ELSE FilenameId(filePath)

\* insert path p into the sequence sorted by modification time, latest first;
\* Array.prototype.sort is stable
RECURSIVE InsertByMtime(_, _)
InsertByMtime(sorted, p) ==
    IF sorted = <<>> THEN <<p>>
    ELSE IF files[sorted[Len(sorted)]].mtime >= files[p].mtime THEN Append(sorted, p)
    ELSE Append(InsertByMtime(SubSeq(sorted, 1, Len(sorted) - 1), p), sorted[Len(sorted)])

RECURSIVE SortedFrom(_, _)
SortedFrom(i, sorted) ==
    IF i > Len(PathOrder) THEN sorted
    ELSE SortedFrom(i + 1, IF files[PathOrder[i]].exists
                           THEN InsertByMtime(sorted, PathOrder[i]) ELSE sorted)

SelectSeq2(seq, t) ==
    LET Recent(p) == (t - files[p].mtime) < MAX_FILE_AGE_MS
    IN SelectSeq(seq, Recent)

\* the files of the projects directory modified within MAX_FILE_AGE_MS
RecentFiles(t) == SelectSeq2(SortedFrom(1, <<>>), t)

\* the loop over recentFiles of scanExistingSessions
RECURSIVE ScanFrom(_, _, _, _)
ScanFrom(w, recentFiles, i, t) ==
    IF i > Len(recentFiles) THEN w
    ELSE LET filePath == recentFiles[i]
             sessionId == extractSessionIdFromFile(filePath)
             w1 == getOrCreateSession(w, sessionId, files[filePath].mtime, t)
             w2 == IF filePath = recentFiles[1] /\ files[filePath].content # <<>>
                   THEN [w1 EXCEPT !.sessions[sessionId].status = "active"]
                   ELSE w1
             w3 == processNewLines([w2 EXCEPT !.filePositions[filePath] = 0],
                                   filePath, t, "ok")
         IN ScanFrom(IF sessionId # NULL THEN w3 ELSE w, recentFiles, i + 1, t)

scanExistingSessions(w, t) == ScanFrom(w, RecentFiles(t), 1, t)

-----------------------------------------------------------------------------
(* The state machine                                                         *)

\* the program's state as a handler finds it; events collects what it emits
Cur ==
    [ sessions |-> sessions, agentToSession |-> agentToSession, events |-> <<>>,
      filePositions |-> filePositions, polled |-> NoPoll, delivered |-> delivered,
      baseline |-> baseline, changeListeners |-> changeListeners, calls |-> <<>> ]

Commit(w) ==
    /\ sessions' = w.sessions
    /\ agentToSession' = w.agentToSession
    /\ events' = w.events
    /\ filePositions' = w.filePositions
    /\ polled' = w.polled
    /\ delivered' = w.delivered
    /\ baseline' = w.baseline
    /\ changeListeners' = w.changeListeners
    /\ calls' = w.calls

\* the token counters are capped to keep the state space finite
WithinBounds(w) ==
    \A id \in DOMAIN w.sessions :
        w.sessions[id].tokens.input + w.sessions[id].tokens.output <= MaxTokens

Init ==
    /\ sessions = <<>>
    /\ agentToSession = <<>>
    /\ events = <<>>
    /\ now = 1
    /\ files = [p \in Paths |-> NoFile]
    /\ filePositions = [p \in Paths |-> NoPos]
    /\ polled = NoPoll
    /\ phase = "run"
    /\ watch = [p \in Paths |-> "unseen"]
    /\ delivered = [p \in Paths |-> <<>>]
    /\ last = [op |-> "init"]
    /\ baseline = [p \in Paths |-> NoPos]
    /\ changeListeners = <<>>
    /\ calls = <<>>

\* the clock advances
Tick ==
    /\ now < MaxTime
    /\ now' = now + 1
    /\ last' = [op |-> "tick"]
    /\ events' = <<>>
    /\ calls' = <<>>
    /\ UNCHANGED <<baseline, changeListeners>>
    /\ UNCHANGED <<sessions, agentToSession, files, filePositions, polled, phase,
                   watch, delivered>>

\* the cleanup timer fires
Sweep ==
    /\ Commit(cleanupStaleSessions(Cur, now))
    /\ last' = [op |-> "sweep"]
    /\ UNCHANGED <<now, files, phase, watch>>

\* one record reaches the reconciler
ProcessRecord(data, agentPath) ==
    LET w == processMessage(Cur, data, agentPath, now)
    IN /\ WithinBounds(w)
       /\ Commit(w)
       /\ last' = [op |-> "record", data |-> data, agentPath |-> agentPath]
       /\ UNCHANGED <<now, files, phase, watch>>

\* one chunk reaches the stream parser
StreamChunk(jsonData) ==
    /\ Commit(parseStreamChunk(Cur, jsonData, now))
    /\ last' = [op |-> "chunk", data |-> jsonData]
    /\ UNCHANGED <<now, files, phase, watch>>

(* Spec: tool executions and the session lifecycle, fed by the stream parser *)
(* and by tool records.                                                      *)

ToolChunks ==
    { [BaseChunk EXCEPT !.type = "init", !.session_id = "P"],
      [BaseChunk EXCEPT !.type = "assistant", !.session_id = "P",
                        !.content = <<ToolUse("Bash")>>],
      [BaseChunk EXCEPT !.type = "tool_result", !.session_id = "P", !.is_error = TRUE],
      [BaseChunk EXCEPT !.type = "result", !.session_id = "P"],
      [BaseChunk EXCEPT !.type = "error", !.session_id = "P"],
      [BaseChunk EXCEPT !.type = "user", !.session_id = "P"] }

ToolRecords ==
    { [BaseRecord EXCEPT !.type = "assistant", !.sessionId = "P",
                         !.blocks = <<ToolUse("Read")>>],
      [BaseRecord EXCEPT !.type = "tool_result", !.sessionId = "P"],
      [BaseRecord EXCEPT !.type = "result", !.sessionId = "P"] }

Next ==
    \/ Tick
    \/ Sweep
    \/ \E d \in ToolRecords : ProcessRecord(d, FALSE)
    \/ \E j \in ToolChunks : StreamChunk(j)

Spec == Init /\ [][Next]_vars

-----------------------------------------------------------------------------
(* WatchSpec: writers, the startup scan and the project watcher's polls.     *)

\* the paths and records the writers of WatchSpec use
WatchPaths == {"P.jsonl"}
FileRecordNames == {"user", "asst"}
IoOutcomes == {"ok", "stat", "read"}

InitWatch ==
    /\ sessions = <<>>
    /\ agentToSession = <<>>
    /\ events = <<>>
    /\ now = 1
    /\ files = [p \in Paths |-> NoFile]
    /\ filePositions = [p \in Paths |-> NoPos]
    /\ polled = NoPoll
    /\ phase = "boot"
    /\ watch = [p \in Paths |-> "unseen"]
    /\ delivered = [p \in Paths |-> <<>>]
    /\ last = [op |-> "init"]
    /\ baseline = [p \in Paths |-> NoPos]
    /\ changeListeners = <<>>
    /\ calls = <<>>

Touched(p) == IF watch[p] = "unseen" THEN watch ELSE [watch EXCEPT ![p] = "dirty"]

\* a writer appends one complete record line; wide: the record holds a
\* character of two bytes
Write(p, r, wide, maxLen) ==
    /\ Len(files[p].content) + 3 <= maxLen
    /\ files' = [files EXCEPT ![p] =
                    [exists |-> TRUE,
                     content |-> files[p].content
                                 \o <<HeadCh(r), TailCh(r, IF wide THEN 2 ELSE 1), NL>>,
                     mtime |-> now,
                     truncated |-> files[p].truncated,
                     truncations |-> files[p].truncations]]
    /\ watch' = Touched(p)
    /\ last' = [op |-> "write", path |-> p]
    /\ events' = <<>>
    /\ calls' = <<>>
    /\ UNCHANGED <<baseline, changeListeners>>
    /\ UNCHANGED <<sessions, agentToSession, now, filePositions, polled, phase, delivered>>

WriteLine(p, r, wide) == Write(p, r, wide, MaxFileLen)

\* a writer appends the characters chars, which need not be a whole line
WriteChars(p, chars, maxLen) ==
    /\ Len(files[p].content) + Len(chars) <= maxLen
    /\ files' = [files EXCEPT ![p] =
                    [exists |-> TRUE,
                     content |-> files[p].content \o chars,
                     mtime |-> now,
                     truncated |-> files[p].truncated,
                     truncations |-> files[p].truncations]]
    /\ watch' = Touched(p)
    /\ last' = [op |-> "write", path |-> p]
    /\ events' = <<>>
    /\ calls' = <<>>
    /\ UNCHANGED <<baseline, changeListeners>>
    /\ UNCHANGED <<sessions, agentToSession, now, filePositions, polled, phase, delivered>>

\* a writer truncates the file to zero bytes
Truncate(p) ==
    /\ files[p].exists
    /\ files[p].content # <<>>
    /\ files[p].truncations < MaxTruncations
    /\ files' = [files EXCEPT ![p].content = <<>>, ![p].mtime = now,
                              ![p].truncated = @ \/ filePositions[p] # NoPos,
                              ![p].truncations = @ + 1]
    /\ delivered' = [delivered EXCEPT ![p] = <<>>]
    /\ watch' = Touched(p)
    /\ last' = [op |-> "truncate", path |-> p]
    /\ events' = <<>>
    /\ calls' = <<>>
    /\ baseline' = [baseline EXCEPT ![p] = NoPos]
    /\ UNCHANGED changeListeners
    /\ UNCHANGED <<sessions, agentToSession, now, filePositions, polled, phase>>

\* FileWatcher.start(): the scan; the watchers' events follow as actions
Start ==
    /\ phase = "boot"
    /\ phase' = "run"
    /\ LET w == scanExistingSessions(Cur, now)
       IN WithinBounds(w) /\ Commit(w)
    /\ last' = [op |-> "scan"]
    /\ UNCHANGED <<now, files, watch>>

\* the project watcher reports a file it had not seen
FileAdded(p, io) ==
    /\ phase = "run"
    /\ files[p].exists
    /\ watch[p] = "unseen"
    /\ watch' = [watch EXCEPT ![p] = "clean"]
    /\ LET w == handleFileAdded(Cur, p, now, io)
       IN WithinBounds(w) /\ Commit(w)
    /\ last' = [op |-> "added", path |-> p, io |-> io]
    /\ UNCHANGED <<now, files, phase>>

\* the project watcher reports a change of a file it has seen
FileChanged(p, io) ==
    /\ phase = "run"
    /\ watch[p] = "dirty"
    /\ watch' = [watch EXCEPT ![p] = "clean"]
    /\ LET w == handleFileChanged(Cur, p, now, io)
       IN WithinBounds(w) /\ Commit(w)
    /\ last' = [op |-> "changed", path |-> p, io |-> io]
    /\ UNCHANGED <<now, files, phase>>

NextWatch ==
    \/ Tick
    \/ Start
    \/ \E p \in WatchPaths, r \in FileRecordNames :
           \E wide \in {FALSE, r = "user"} : WriteLine(p, r, wide)
    \/ \E p \in WatchPaths : Truncate(p)
    \/ \E p \in WatchPaths, io \in IoOutcomes : FileAdded(p, io)
    \/ \E p \in WatchPaths, io \in IoOutcomes : FileChanged(p, io)

WatchSpec == InitWatch /\ [][NextWatch]_vars

-----------------------------------------------------------------------------
(* LinkSpec: sub-agent records, parent records and the sweep.                *)

SubRecord == [BaseRecord EXCEPT !.type = "user", !.sessionId = "P", !.agentId = "A",
                                !.cwd = "/w"]
ParentRecord == [BaseRecord EXCEPT !.type = "queue-operation", !.sessionId = "P",
                                   !.operation = "dequeue"]
AgentOnlyRecord == [BaseRecord EXCEPT !.type = "user", !.agentId = "A", !.cwd = "/w"]

LinkRecords == {SubRecord, ParentRecord, AgentOnlyRecord}

NextLink ==
    \/ Tick
    \/ Sweep
    \/ \E d \in LinkRecords, agentPath \in BOOLEAN : ProcessRecord(d, agentPath)

LinkSpec == Init /\ [][NextLink]_vars

(* MsgSpec: user and assistant messages of one session.                      *)

UserRecord(text) == [BaseRecord EXCEPT !.type = "user", !.sessionId = "P", !.text = text]
AssistantText(text) ==
    [BaseRecord EXCEPT !.type = "assistant", !.sessionId = "P",
                       !.blocks = <<TextBlock(text)>>]

MsgRecords ==
    {UserRecord(ShortText), UserRecord(OtherText), UserRecord(LongText),
     UserRecord(Warmup), AssistantText(ShortText), AssistantText(LongText)}

NextMsg ==
    \/ Tick
    \/ \E d \in MsgRecords : ProcessRecord(d, FALSE)

MsgSpec == Init /\ [][NextMsg]_vars

-----------------------------------------------------------------------------
(* Properties                                                                *)

Count(seq, x) == Cardinality({i \in 1..Len(seq) : seq[i] = x})

\* two sessions that differ at most in lastActivity
SameButActivity(a, b) == [a EXCEPT !.lastActivity = 0] = [b EXCEPT !.lastActivity = 0]

\* C1: a second pass over the same file content from offset 0, into the store
\* the first pass produced, leaves every session as it was but for
\* lastActivity (tokens, messages, toolHistory and subAgents included).
C1_ReplayIdempotent ==
    [][(/\ last.op \in {"scan", "added"}
        /\ polled.outcome = "read"
        /\ polled.from = 0
        /\ polled.content = files[polled.path].content
        /\ last'.op = "added"
        /\ polled' = polled
        /\ files' = files)
       => /\ DOMAIN sessions' = DOMAIN sessions
          /\ \A id \in DOMAIN sessions : SameButActivity(sessions[id], sessions'[id])]_vars

\* the last handler processed a record with sessionId P and agentId A
SubAgentRecordSeen ==
    /\ last.op = "record"
    /\ last.data.sessionId = "P"
    /\ last.data.agentId = "A"

\* C2: after a record with sessionId P and a different agentId A, session A
\* exists as a sub-agent of P and P lists A exactly once.
C2_SubAgentRegistered ==
    SubAgentRecordSeen =>
        /\ "A" \in DOMAIN sessions
        /\ sessions["A"].parentSessionId = "P"
        /\ sessions["A"].isSubAgent
        /\ "P" \in DOMAIN sessions => Count(sessions["P"].subAgents, "A") = 1

\* C3: once the parent is in the store, a further record of its sub-agent
\* leaves the sub-agent listed in the parent's subAgents.
C3_LinkedOnceParentExists ==
    (/\ SubAgentRecordSeen
     /\ "P" \in DOMAIN sessions
     /\ "A" \in DOMAIN sessions
     /\ sessions["A"].parentSessionId = "P")
    => Includes(sessions["P"].subAgents, "A")

Inactive(id) == now - sessions[id].lastActivity

\* the last handler completed, or reported an error for, session id
JustEnded(id) ==
    \/ /\ last.op = "chunk"
       /\ last.data.type \in {"result", "error"}
       /\ last.data.session_id = id
    \/ /\ last.op = "record"
       /\ last.data.type = "result"
       /\ EffectiveSessionId(last.data, last.agentPath) = id

\* C4: a session that has just been completed (a result record or chunk) or
\* set to error (an error chunk) has no open tool.
C4_EndClosesTool ==
    \A id \in DOMAIN sessions : JustEnded(id) => sessions[id].currentTool = NoTool

\* C5, as claimed: after a sweep no session is left active, without an open
\* tool, with an inactivity of exactly the idle threshold (it was set to idle).
C5_IdleAtThreshold ==
    last.op = "sweep" =>
        \A id \in DOMAIN sessions :
            ~ /\ sessions[id].status = "active"
              /\ sessions[id].currentTool = NoTool
              /\ Inactive(id) = IDLE_THRESHOLD_MS

\* C5, amended: a sweep sets an active session without an open tool to idle
\* when its inactivity is above the idle threshold (and not above the removal
\* timeout); at the threshold or below it the session stays active.
C5_IdleAboveThreshold ==
    [][(last'.op = "sweep" /\ now' = now) =>
        \A id \in DOMAIN sessions :
            (sessions[id].status = "active" /\ sessions[id].currentTool = NoTool) =>
                IF Inactive(id) > SESSION_TIMEOUT_MS THEN id \notin DOMAIN sessions'
                ELSE /\ id \in DOMAIN sessions'
                     /\ sessions'[id].status =
                            IF Inactive(id) > IDLE_THRESHOLD_MS THEN "idle" ELSE "active"]_vars

C5_Witness ==
    /\ last.op = "sweep"
    /\ "P" \in DOMAIN sessions
    /\ sessions["P"].status = "idle"
    /\ Inactive("P") = IDLE_THRESHOLD_MS + 1
    /\ events = << <<"session_updated", "P">> >>

\* the last handler processed a record or chunk of session id
RecordArrived(id) ==
    \/ last.op = "record" /\ EffectiveSessionId(last.data, last.agentPath) = id
    \/ last.op = "chunk" /\ last.data.session_id = id

\* session id is in the store, the clock can still pass its removal timeout,
\* and the last handler brought it no record
StaleInTime(id) ==
    /\ id \in DOMAIN sessions
    /\ sessions[id].lastActivity + SESSION_TIMEOUT_MS < MaxTime
    /\ ~RecordArrived(id)

\* C6: a sweep deletes exactly the sessions whose inactivity exceeds the
\* removal timeout, whatever their status and open tool, with one
\* session_removed event each; and a session that receives no further record
\* is eventually removed (while the bounded clock can still pass its timeout).
C6_StaleRemoved ==
    /\ [][(last'.op = "sweep" /\ now' = now) =>
            \A id \in DOMAIN sessions :
                IF Inactive(id) > SESSION_TIMEOUT_MS
                THEN /\ id \notin DOMAIN sessions'
                     /\ \A s \in getAllSessions([sessions |-> sessions']) : s.id # id
                     /\ Count(events', <<"session_removed", id>>) = 1
                ELSE /\ id \in DOMAIN sessions'
                     /\ Count(events', <<"session_removed", id>>) = 0]_vars
    /\ \A id \in Ids :
         [](StaleInTime(id) => <>(id \notin DOMAIN sessions \/ RecordArrived(id)))

C6_Witness ==
    /\ last.op = "sweep"
    /\ "P" \notin DOMAIN sessions
    /\ events = << <<"session_removed", "P">> >>

\* the timers of the clock and of the sweep keep firing
LiveSpec == Spec /\ WF_vars(Tick) /\ WF_vars(Sweep)

\* the path has a recent file from which the scan derives a session id
Scanned(p) ==
    /\ files[p].exists
    /\ (now - files[p].mtime) < MAX_FILE_AGE_MS
    /\ extractSessionIdFromFile(p) # NULL

\* C7: after the startup scan, the session of a scanned file still has the
\* file's modification time as its lastActivity.
C7_ScanKeepsFileTime ==
    last.op = "scan" =>
        \A p \in Paths :
            Scanned(p) =>
                /\ extractSessionIdFromFile(p) \in DOMAIN sessions
                /\ sessions[extractSessionIdFromFile(p)].lastActivity = files[p].mtime

\* every complete record line of the file has been handed to processMessage
\* since the file was last truncated
AllDelivered(p) ==
    LET lines == Lines(files[p].content, 1, <<>>, <<>>)
    IN \A i \in 1..Len(lines) :
          (Parses(lines[i].line) /\ lines[i].end < Len(files[p].content))
              => Includes(delivered[p], lines[i].end)

\* the last step was a handler of the file watcher
JustPolled == last.op \in {"scan", "added", "changed"}

\* C8: a poll that finds the file shorter than its offset sets the offset to
\* 0 and processes nothing; and once a later poll has read a truncated file
\* up to its size, every record written since the truncation was processed.
C8_TruncationRecovered ==
    /\ (JustPolled /\ polled.outcome = "shrunk") =>
          /\ filePositions[polled.path] = 0
          /\ polled.content = <<>>
          /\ events = <<>>
    /\ \A p \in Paths :
          (/\ last.op = "changed"
           /\ polled.path = p
           /\ polled.outcome \in {"read", "same"}
           /\ files[p].truncated
           /\ files[p].content # <<>>)
          => AllDelivered(p)

\* C9: a poll of a file larger than its offset hands the parser the bytes
\* [lastOffset, currentSize) of the file and sets the offset to currentSize.
C9_PollReadsByteRange ==
    (JustPolled /\ polled.outcome = "read") =>
        /\ BytesOf(polled.content)
             = SubSeq(BytesOf(files[polled.path].content), polled.from + 1, polled.size)
        /\ filePositions[polled.path] = polled.size

\* C10: a user message whose role and content equal those of the message
\* appended just before it is not stored again.
C10_DuplicateSuppressed ==
    [][(/\ last.op = "record"
        /\ last'.op = "record"
        /\ last'.data = last.data
        /\ last.data.type = "user"
        /\ last.data.text \notin {<<>>, Warmup}
        /\ "P" \in DOMAIN sessions)
       => /\ "P" \in DOMAIN sessions'
          /\ sessions'["P"].messages = sessions["P"].messages]_vars

-----------------------------------------------------------------------------
(* StoreSpec: the operations of the session store called directly, in any    *)
(* order, with the server's broadcast listener registered (server.js 165).   *)

\* a todo list of one item
Todos == <<"todo">>
Opus == <<"claude", "Opus", "4">>
Sonnet == <<"claude", "Sonnet", "4">>

\* the calls of the store's operations; seed 0 stands for no seed, and a seed
\* is a timestamp not later than the clock
StoreCalls ==
    { [name |-> "getOrCreateSession", id |-> "P", seed |-> 0],
      [name |-> "getOrCreateSession", id |-> "P", seed |-> 1],
      [name |-> "createSubAgent", id |-> "A", parent |-> "P"],
      [name |-> "linkSubAgent", id |-> "A", parent |-> "P"],
      [name |-> "startTool", id |-> "P", toolName |-> "Bash"],
      [name |-> "completeTool", id |-> "P", toolName |-> "Bash", status |-> "completed"],
      [name |-> "completeSession", id |-> "P"],
      [name |-> "updateSessionStatus", id |-> "P", status |-> "error"] }

\* the store after the call c at time t
Apply(st, c, t) ==
    CASE c.name = "getOrCreateSession" -> getOrCreateSession(st, c.id, c.seed, t)
      [] c.name = "updateModelInfo" -> updateModelInfo(st, c.id, c.model, c.version, t)
      [] c.name = "updateCwd" -> updateCwd(st, c.id, c.cwd, t)
      [] c.name = "updateGitBranch" -> updateGitBranch(st, c.id, c.branch, t)
      [] c.name = "updateTokenUsage" -> updateTokenUsage(st, c.id, c.usage, t)
      [] c.name = "addMessage" -> addMessage(st, c.id, c.role, c.content, t)
      [] c.name = "createSubAgent" -> createSubAgent(st, c.id, c.parent, t)
      [] c.name = "linkSubAgent" -> linkSubAgent(st, c.parent, c.id)
      [] c.name = "startTool" -> startTool(st, c.id, c.toolName, t)
      [] c.name = "completeTool" -> completeTool(st, c.id, c.toolName, c.status, t)
      [] c.name = "completeSession" -> completeSession(st, c.id, t)
      [] c.name = "updateSessionStatus" -> updateSessionStatus(st, c.id, c.status, t)
      [] c.name = "updateSessionPrompt" -> updateSessionPrompt(st, c.id, c.prompt, t)
      [] c.name = "updateTodos" -> updateTodos(st, c.id, c.todos, t)

\* one operation of the store is called
StoreCall(c) ==
    LET w == Apply(Cur, c, now)
    IN /\ WithinBounds(w)
       /\ c.name = "getOrCreateSession" => c.seed <= now
       /\ Commit(w)
       /\ last' = [op |-> "store", call |-> c]
       /\ UNCHANGED <<now, files, phase, watch>>

InitStore ==
    /\ sessions = <<>>
    /\ agentToSession = <<>>
    /\ events = <<>>
    /\ now = 1
    /\ files = [p \in Paths |-> NoFile]
    /\ filePositions = [p \in Paths |-> NoPos]
    /\ polled = NoPoll
    /\ phase = "run"
    /\ watch = [p \in Paths |-> "unseen"]
    /\ delivered = [p \in Paths |-> <<>>]
    /\ last = [op |-> "init"]
    /\ baseline = [p \in Paths |-> NoPos]
    /\ changeListeners = <<"broadcast">>
    /\ calls = <<>>

NextStore ==
    \/ Tick
    \/ Sweep
    \/ \E c \in StoreCalls : StoreCall(c)

StoreSpec == InitStore /\ [][NextStore]_vars

-----------------------------------------------------------------------------
(* LateSpec: a log file that is too old when the watcher starts and is      *)
(* written to afterwards; the file may hold three lines.                     *)

MaxLateLen == 10

NextLate ==
    \/ Tick
    \/ Start
    \/ \E wide \in BOOLEAN : Write("P.jsonl", "user", wide, MaxLateLen)
    \/ Truncate("P.jsonl")
    \/ FileAdded("P.jsonl", "ok")
    \/ \E io \in {"ok", "changed"} : FileChanged("P.jsonl", io)

LateSpec == InitWatch /\ [][NextLate]_vars

-----------------------------------------------------------------------------
(* HistSpec: the records that start and complete tools, append messages and  *)
(* count tokens, for one session.                                            *)

HistRecords ==
    { [BaseRecord EXCEPT !.type = "assistant", !.sessionId = "P",
                         !.usage = Usage(1, 0), !.blocks = <<ToolUse("Read")>>],
      [BaseRecord EXCEPT !.type = "assistant", !.sessionId = "P",
                         !.usage = Usage(0, 1), !.blocks = <<ToolUse("Bash")>>],
      [BaseRecord EXCEPT !.type = "assistant", !.sessionId = "P",
                         !.blocks = <<TextBlock(ShortText)>>],
      [BaseRecord EXCEPT !.type = "tool_result", !.sessionId = "P"],
      [BaseRecord EXCEPT !.type = "tool_result", !.sessionId = "P", !.is_error = TRUE],
      [BaseRecord EXCEPT !.type = "user", !.sessionId = "P", !.text = ShortText],
      [BaseRecord EXCEPT !.type = "user", !.sessionId = "P", !.text = OtherText] }

NextHist == \E d \in HistRecords : ProcessRecord(d, FALSE)

HistSpec == Init /\ [][NextHist]_vars

-----------------------------------------------------------------------------
(* MetaSpec: records and store calls that carry a model, a version, a        *)
(* working directory or a git branch, with clock ticks and sweeps.           *)

Other == <<"gpt">>

MetaRecords ==
    { [BaseRecord EXCEPT !.type = "assistant", !.sessionId = "P",
                         !.model = Opus, !.version = "v1"],
      [BaseRecord EXCEPT !.type = "assistant", !.sessionId = "P",
                         !.model = Sonnet, !.version = "v2"],
      [BaseRecord EXCEPT !.type = "assistant", !.sessionId = "P", !.model = Other],
      [BaseRecord EXCEPT !.type = "user", !.sessionId = "P",
                         !.cwd = "/w", !.gitBranch = "main"],
      [BaseRecord EXCEPT !.type = "user", !.sessionId = "P",
                         !.cwd = "/x", !.gitBranch = "dev", !.text = ShortText],
      [BaseRecord EXCEPT !.type = "result", !.sessionId = "P"] }

MetaCalls ==
    { [name |-> "updateModelInfo", id |-> "P", model |-> NullModel, version |-> "v2"],
      [name |-> "updateModelInfo", id |-> "P", model |-> Sonnet, version |-> NULL],
      [name |-> "updateCwd", id |-> "P", cwd |-> "/x"],
      [name |-> "updateGitBranch", id |-> "P", branch |-> "dev"],
      [name |-> "updateTodos", id |-> "P", todos |-> Todos] }

NextMeta ==
    \/ Tick
    \/ Sweep
    \/ \E d \in MetaRecords : ProcessRecord(d, FALSE)
    \/ \E c \in MetaCalls : StoreCall(c)

MetaSpec == Init /\ [][NextMeta]_vars

-----------------------------------------------------------------------------
(* ListenSpec: listeners are registered while the store is in use; the        *)
(* listener "faulty" throws on every call.                                    *)

MaxListeners == 3

Listeners == {"broadcast", "faulty"}

ListenCalls ==
    { [name |-> "getOrCreateSession", id |-> "P", seed |-> 0],
      [name |-> "startTool", id |-> "P", toolName |-> "Bash"],
      [name |-> "completeSession", id |-> "P"] }

\* onChange(callback) is called
OnChange(callback) ==
    /\ Len(changeListeners) < MaxListeners
    /\ Commit(onChange(Cur, callback))
    /\ last' = [op |-> "onChange", callback |-> callback]
    /\ UNCHANGED <<now, files, phase, watch>>

NextListen ==
    \/ Tick
    \/ Sweep
    \/ \E callback \in Listeners : OnChange(callback)
    \/ \E c \in ListenCalls : StoreCall(c)

ListenSpec == Init /\ [][NextListen]_vars

-----------------------------------------------------------------------------
(* JunkSpec: a log file that holds, among its records, lines that are no     *)
(* JSON and lines that decode to null.                                       *)

MaxJunkLen == 8

JunkLines ==
    { <<JunkCh, NL>>,
      NullLine,
      <<HeadCh("user"), TailCh("user", 1), NL>>,
      <<HeadCh("user"), TailCh("user", 2), NL>>,
      <<HeadCh("asst"), TailCh("asst", 1), NL>> }

NextJunk ==
    \/ Start
    \/ \E chars \in JunkLines : WriteChars("P.jsonl", chars, MaxJunkLen)
    \/ FileAdded("P.jsonl", "ok")
    \/ FileChanged("P.jsonl", "ok")

JunkSpec == InitWatch /\ [][NextJunk]_vars

-----------------------------------------------------------------------------
(* IdSpec: records with every combination of sessionId and agentId, from    *)
(* files inside and outside the sub-agent subtree.                           *)

RecordIds == {NULL, "P", "A"}

IdRecords ==
    { [BaseRecord EXCEPT !.type = "user", !.sessionId = sid, !.agentId = aid,
                         !.cwd = "/w", !.text = ShortText] :
        sid \in RecordIds, aid \in RecordIds }
    \cup
    { [BaseRecord EXCEPT !.type = "result", !.sessionId = sid, !.agentId = aid,
                         !.cwd = "/w"] :
        sid \in RecordIds, aid \in RecordIds }

NextId == \E d \in IdRecords, agentPath \in BOOLEAN : ProcessRecord(d, agentPath)

IdSpec == Init /\ [][NextId]_vars

-----------------------------------------------------------------------------
(* UnknownSpec: tool_result and result records without cwd and gitBranch,    *)
(* and calls of the store's operations, for ids in and out of the store.     *)

UnknownRecords ==
    { [BaseRecord EXCEPT !.type = ty, !.sessionId = sid, !.agentId = aid] :
        ty \in {"tool_result", "result"}, sid \in RecordIds, aid \in {NULL, "A"} }

UnknownCalls ==
    { [name |-> "getOrCreateSession", id |-> "P", seed |-> 0] }
    \cup { [name |-> "updateTokenUsage", id |-> id, usage |-> Usage(MaxTokens, 0)] : id \in Ids }
    \cup { [name |-> "addMessage", id |-> id, role |-> "user", content |-> ShortText] :
             id \in Ids }
    \cup { [name |-> "updateSessionStatus", id |-> id, status |-> "error"] : id \in Ids }
    \cup { [name |-> "updateTodos", id |-> id, todos |-> Todos] : id \in Ids }
    \cup { [name |-> "completeTool", id |-> id, toolName |-> "Bash",
            status |-> "completed"] : id \in Ids }
    \cup { [name |-> "completeSession", id |-> id] : id \in Ids }

NextUnknown ==
    \/ \E d \in UnknownRecords, agentPath \in BOOLEAN : ProcessRecord(d, agentPath)
    \/ \E c \in UnknownCalls : StoreCall(c)

UnknownSpec == Init /\ [][NextUnknown]_vars

-----------------------------------------------------------------------------
(* FailSpec: polls of one log file in which any of the calls of the file     *)
(* system may throw.                                                         *)

AllIo == {"ok", "stat", "read", "added", "changed"}

NextFail ==
    \/ Tick
    \/ Start
    \/ \E r \in FileRecordNames : WriteLine("P.jsonl", r, FALSE)
    \/ \E io \in AllIo : FileAdded("P.jsonl", io)
    \/ \E io \in AllIo : FileChanged("P.jsonl", io)

FailSpec == InitWatch /\ [][NextFail]_vars

-----------------------------------------------------------------------------
(* TodoSpec: changes of the todo files of session P.                         *)

TodoContents == {NoJson, TodoList(<<>>), TodoList(Todos), TodoList(<<"todo", "next">>)}

TodoCalls ==
    { [name |-> "getOrCreateSession", id |-> "P", seed |-> 0],
      [name |-> "completeSession", id |-> "P"] }

\* the todos watcher reports a change of a file that now holds content
TodoChanged(p, content) ==
    /\ Commit(handleTodoChanged(Cur, p, content, now))
    /\ last' = [op |-> "todo", path |-> p, content |-> content]
    /\ UNCHANGED <<now, files, phase, watch>>

NextTodo ==
    \/ Tick
    \/ Sweep
    \/ \E c \in TodoCalls : StoreCall(c)
    \/ \E p \in TodoPaths, content \in TodoContents : TodoChanged(p, content)

TodoSpec == Init /\ [][NextTodo]_vars

-----------------------------------------------------------------------------
\* A running session appends record lines to its log while the watcher
\* polls it: a line is appended whole, or in two writes (its first part,
\* then the rest with the newline), and a poll may run between the two.
\* The log is created after start(), so the scan finds nothing and the
\* watcher reports it as added once.

MaxSplitLen == 9

SplitRecords == {"user", "asst"}

\* the file ends inside a line
MidLine(p) ==
    /\ files[p].content # <<>>
    /\ files[p].content[Len(files[p].content)].kind # "nl"

\* the writer appends the whole line of record r in one write
AppendWhole(p, r) ==
    /\ phase = "run"
    /\ ~MidLine(p)
    /\ WriteChars(p, <<HeadCh(r), TailCh(r, 1), NL>>, MaxSplitLen)

\* the writer appends the first part of the line of record r to a file the
\* watcher tracks
AppendFirstPart(p, r) ==
    /\ filePositions[p] # NoPos
    /\ ~MidLine(p)
    /\ WriteChars(p, <<HeadCh(r)>>, MaxSplitLen - 2)

\* the writer appends the rest of the line it began, and the newline
AppendRest(p) ==
    /\ MidLine(p)
    /\ WriteChars(p, <<TailCh(files[p].content[Len(files[p].content)].rec, 1), NL>>,
                  MaxSplitLen)

NextSplit ==
    \/ Start
    \/ \E r \in SplitRecords : AppendWhole("P.jsonl", r)
    \/ \E r \in SplitRecords : AppendFirstPart("P.jsonl", r)
    \/ AppendRest("P.jsonl")
    \/ FileAdded("P.jsonl", "ok")
    \/ FileChanged("P.jsonl", "ok")

SplitSpec == InitWatch /\ [][NextSplit]_vars

-----------------------------------------------------------------------------
(* CostSpec: assistant records with and without a working directory, a model *)
(* and token usage.                                                          *)

CostRecords ==
    { [BaseRecord EXCEPT !.type = "assistant", !.sessionId = id, !.cwd = cwd,
                         !.model = m, !.usage = u] :
        id \in {"P"},
        cwd \in {NULL, "/w"},
        m \in {NullModel, Opus, Other},
        u \in {NoUsage, Usage(1, 0), Usage(0, 1)} }

NextCost == \E d \in CostRecords : ProcessRecord(d, FALSE)

CostSpec == Init /\ [][NextCost]_vars

-----------------------------------------------------------------------------
(* SubSpec: assistant records of session P and user, assistant, tool_result  *)
(* and result records that carry sessionId P and agentId A, from the         *)
(* session's log or from an agent log, with clock ticks.                     *)

ParentRecords ==
    { [BaseRecord EXCEPT !.type = "assistant", !.sessionId = "P",
                         !.usage = Usage(1, 0), !.blocks = <<ToolUse("Read")>>] }

SubAgentRecords ==
    { [BaseRecord EXCEPT !.type = "user", !.sessionId = "P", !.agentId = "A",
                         !.cwd = "/w", !.text = OtherText],
      [BaseRecord EXCEPT !.type = "assistant", !.sessionId = "P", !.agentId = "A",
                         !.usage = Usage(0, 1), !.blocks = <<ToolUse("Bash")>>],
      [BaseRecord EXCEPT !.type = "tool_result", !.sessionId = "P", !.agentId = "A",
                         !.is_error = TRUE],
      [BaseRecord EXCEPT !.type = "result", !.sessionId = "P", !.agentId = "A"] }

MaxSubTime == 3

\* the clock advances, up to MaxSubTime
SubTick == now < MaxSubTime /\ Tick

NextSub ==
    \/ SubTick
    \/ \E d \in ParentRecords : ProcessRecord(d, FALSE)
    \/ \E d \in SubAgentRecords, agentPath \in BOOLEAN : ProcessRecord(d, agentPath)

SubSpec == Init /\ [][NextSub]_vars

-----------------------------------------------------------------------------
\* C11: after a record whose effective session id resolves, whatever its
\* type and fields, a session with that id is in the store.
C11_CreatedOnFirstReference ==
    (last.op = "record" /\ EffectiveSessionId(last.data, last.agentPath) # NULL)
        => EffectiveSessionId(last.data, last.agentPath) \in DOMAIN sessions

\* the data of the last call in cs that a listener received for session id
RECURSIVE LastDataFor(_, _, _)
LastDataFor(cs, i, id) ==
    IF i = 0 THEN [id |-> NULL]
    ELSE IF cs[i].data.id = id THEN cs[i].data
    ELSE LastDataFor(cs, i - 1, id)

\* C12: a step of the store that changes a field of a session (or creates
\* the session) hands the listener, in that step, an event with the session
\* as it is after the change; a step that removes a session hands it a
\* session_removed event with the id.
C12_ChangeNotified ==
    [][/\ \A id \in DOMAIN sessions' :
            (id \notin DOMAIN sessions \/ sessions'[id] # sessions[id])
                => LastDataFor(calls', Len(calls'), id) = sessions'[id]
       /\ \A id \in DOMAIN sessions \ DOMAIN sessions' :
            \E i \in 1..Len(calls') :
                /\ calls'[i].eventType = "session_removed"
                /\ calls'[i].data = [id |-> id]]_vars

\* C13: a change reported for a file without an offset sets the offset to the
\* size of the file and processes nothing; and no line that was in the file
\* at that moment is handed to processMessage afterwards.
C13_ChangedWithoutOffset ==
    /\ [][\A p \in Paths :
            (last'.op = "changed" /\ last'.path = p /\ filePositions[p] = NoPos)
                => /\ filePositions'[p] = ByteLen(files[p].content)
                   /\ delivered'[p] = delivered[p]
                   /\ events' = <<>>]_vars
    /\ [](\A p \in Paths :
            baseline[p] # NoPos =>
                \A i \in 1..Len(delivered[p]) : delivered[p][i] > baseline[p])

\* the position of the first occurrence of x in seq, 0 when there is none
IndexOf(seq, x) ==
    IF \E i \in 1..Len(seq) : seq[i] = x
    THEN CHOOSE i \in 1..Len(seq) : seq[i] = x /\ \A j \in 1..(i - 1) : seq[j] # x
    ELSE 0

\* the step processes a result record, or a result chunk, of session id
ResultStep(id) ==
    \/ /\ last'.op = "record"
       /\ last'.data.type = "result"
       /\ EffectiveSessionId(last'.data, last'.agentPath) = id
    \/ /\ last'.op = "chunk"
       /\ last'.data.type = "result"
       /\ last'.data.session_id = id

\* C14: a result record for a session with an open tool closes the tool,
\* puts one entry with status completed for it at the head of toolHistory,
\* sets the status to completed, and emits tool_completed before
\* session_completed.
C14_ResultClosesTool ==
    [][\A id \in DOMAIN sessions :
         (ResultStep(id) /\ sessions[id].currentTool # NoTool) =>
            /\ id \in DOMAIN sessions'
            /\ sessions'[id].currentTool = NoTool
            /\ sessions'[id].toolHistory =
                   FirstN(<<[name |-> sessions[id].currentTool.name,
                            status |-> "completed"]>> \o sessions[id].toolHistory,
                          MAX_TOOL_HISTORY)
            /\ sessions'[id].status = "completed"
            /\ Count(events', <<"tool_completed", id>>) = 1
            /\ Count(events', <<"session_completed", id>>) = 1
            /\ IndexOf(events', <<"tool_completed", id>>)
                  < IndexOf(events', <<"session_completed", id>>)]_vars

\* a result record has just closed a tool of P whose history was full
C14_Witness ==
    /\ last.op = "record"
    /\ last.data.type = "result"
    /\ events = << <<"tool_completed", "P">>, <<"session_completed", "P">> >>
    /\ sessions["P"].status = "completed"
    /\ sessions["P"].currentTool = NoTool
    /\ Len(sessions["P"].toolHistory) = MAX_TOOL_HISTORY
    /\ sessions["P"].toolHistory[1].status = "completed"
    /\ sessions["P"].toolHistory[2].status = "failed"

\* C15: in every session the token total is the sum of the input and the
\* output tokens.
C15_TotalIsInputPlusOutput ==
    \A id \in DOMAIN sessions :
        sessions[id].tokens.total
            = sessions[id].tokens.input + sessions[id].tokens.output

\* a session that has counted input and output tokens of several records
C15_Witness ==
    /\ "P" \in DOMAIN sessions
    /\ sessions["P"].tokens.input > 0
    /\ sessions["P"].tokens.output > 0
    /\ sessions["P"].tokens.total = MaxTokens

\* C16: no session has more than MAX_TOOL_HISTORY history entries or more
\* than MAX_MESSAGES messages.
C16_CapsHold ==
    \A id \in DOMAIN sessions :
        /\ Len(sessions[id].toolHistory) <= MAX_TOOL_HISTORY
        /\ Len(sessions[id].messages) <= MAX_MESSAGES

\* a session with a full history and a full message list to which a record
\* has just added a message
C16_Witness ==
    /\ "P" \in DOMAIN sessions
    /\ Len(sessions["P"].toolHistory) = MAX_TOOL_HISTORY
    /\ Len(sessions["P"].messages) = MAX_MESSAGES
    /\ last.op = "record"
    /\ last.data.type = "user"
    /\ events # <<>>

\* the record has a message for the session: a user prompt, or a text block
CarriesMessage(data) ==
    \/ data.type = "user" /\ data.text \notin {<<>>, Warmup}
    \/ data.type = "assistant" /\ data.blocks # <<>> /\ data.blocks[1].type = "text"

\* the message that a record appends, as it is stored
StoredMessage(data) ==
    IF data.type = "user"
    THEN [role |-> "user", content |-> truncate(data.text, MESSAGE_TRUNCATE)]
    ELSE [role |-> "assistant",
          content |-> truncate(data.blocks[1].text, MESSAGE_TRUNCATE)]

\* C17: a record that completes a tool puts its entry at the head of
\* toolHistory and drops the entries beyond the cap from the tail; a record
\* that appends a message puts it at the end of messages and drops the
\* entries beyond the cap from the front; nothing else changes the two lists.
C17_NewestFirstOldestFirst ==
    [][(last'.op = "record" /\ "P" \in DOMAIN sessions /\ "P" \in DOMAIN sessions') =>
         LET old == sessions["P"]
             new == sessions'["P"]
         IN /\ IF Count(events', <<"tool_completed", "P">>) = 0
               THEN new.toolHistory = old.toolHistory
               ELSE /\ Count(events', <<"tool_completed", "P">>) = 1
                    /\ old.currentTool # NoTool
                    /\ \E status \in {"completed", "failed"} :
                          new.toolHistory =
                              FirstN(<<[name |-> old.currentTool.name,
                                       status |-> status]>> \o old.toolHistory,
                                     MAX_TOOL_HISTORY)
            /\ IF CarriesMessage(last'.data)
                  /\ (old.messages = <<>>
                      \/ old.messages[Len(old.messages)] # StoredMessage(last'.data))
               THEN new.messages = LastN(Append(old.messages, StoredMessage(last'.data)),
                                         MAX_MESSAGES)
               ELSE new.messages = old.messages]_vars

\* a full history whose head is the tool completed last, and a full message
\* list whose end is the message appended last
C17_Witness ==
    /\ "P" \in DOMAIN sessions
    /\ sessions["P"].toolHistory = <<[name |-> "Bash", status |-> "failed"],
                                     [name |-> "Read", status |-> "completed"]>>
    /\ sessions["P"].messages = <<[role |-> "assistant", content |-> ShortText],
                                  [role |-> "user", content |-> OtherText]>>
    /\ last.op = "record"
    /\ last.data.type = "user"

-----------------------------------------------------------------------------
\* C18: while a session stays in the store its lastActivity never decreases,
\* whatever operation of the store, sweep or clock tick is taken (the clock
\* does not go back and a seed is not later than the clock); and a seeded
\* getOrCreateSession for a session already in the store leaves its
\* lastActivity as it was.
SeededCall(l) ==
    /\ l.op = "store"
    /\ l.call.name = "getOrCreateSession"
    /\ l.call.seed # 0

C18_LastActivityMonotone ==
    [][/\ \A id \in DOMAIN sessions \cap DOMAIN sessions' :
            sessions'[id].lastActivity >= sessions[id].lastActivity
       /\ (SeededCall(last') /\ last'.call.id \in DOMAIN sessions)
            => sessions'[last'.call.id].lastActivity
                 = sessions[last'.call.id].lastActivity]_vars

\* a seeded getOrCreateSession has just been called for a session whose last
\* activity is later than the seed, so the session was in the store before
C18_Witness ==
    /\ SeededCall(last)
    /\ last.call.id \in DOMAIN sessions
    /\ sessions[last.call.id].lastActivity > last.call.seed

-----------------------------------------------------------------------------
\* C19: model, modelShort, cwd, gitBranch and version are written once: when
\* one of them is set for a session, no record, store call, sweep or tick
\* changes its value while the session stays in the store.  (modelShort is
\* also compared whenever model is set, since a model name without a second
\* part has an empty short name.)
C19_FirstWriterWins ==
    [][\A id \in DOMAIN sessions \cap DOMAIN sessions' :
          /\ sessions[id].model # NullModel
               => /\ sessions'[id].model = sessions[id].model
                  /\ sessions'[id].modelShort = sessions[id].modelShort
          /\ sessions[id].modelShort # NullModel
               => sessions'[id].modelShort = sessions[id].modelShort
          /\ sessions[id].cwd # NULL => sessions'[id].cwd = sessions[id].cwd
          /\ sessions[id].gitBranch # NULL
               => sessions'[id].gitBranch = sessions[id].gitBranch
          /\ sessions[id].version # NULL
               => sessions'[id].version = sessions[id].version]_vars

\* a record with another directory and branch has just been processed for a
\* session that keeps the directory, branch, model and version it had
C19_Witness ==
    /\ last.op = "record"
    /\ last.data.cwd = "/x"
    /\ last.data.gitBranch = "dev"
    /\ "P" \in DOMAIN sessions
    /\ sessions["P"].cwd = "/w"
    /\ sessions["P"].gitBranch = "main"
    /\ sessions["P"].model = Opus
    /\ sessions["P"].version = "v1"

-----------------------------------------------------------------------------
\* C20: for every event a step emits, every registered listener is called
\* once, in the order of registration, with that event, before the next
\* event is delivered, whether or not a listener throws; and the store after
\* the step is the store the same operation leaves when no listener is
\* registered.
Quiet == [Cur EXCEPT !.changeListeners = <<>>]

C20_AllListenersInOrder ==
    [][/\ Len(calls') = Len(events') * Len(changeListeners')
       /\ \A k \in 1..Len(events') : \A j \in 1..Len(changeListeners') :
            LET call == calls'[(k - 1) * Len(changeListeners') + j]
            IN /\ call.listener = changeListeners'[j]
               /\ call.eventType = events'[k][1]
               /\ call.data.id = events'[k][2]
       /\ last'.op = "store"
            => /\ sessions' = Apply(Quiet, last'.call, now).sessions
               /\ agentToSession' = Apply(Quiet, last'.call, now).agentToSession
       /\ last'.op = "sweep"
            => sessions' = cleanupStaleSessions(Quiet, now).sessions]_vars

\* a session with an open tool has just been completed, with the throwing
\* listener registered before the broadcast listener: both events reached
\* both listeners
C20_Witness ==
    /\ changeListeners = <<"faulty", "broadcast">>
    /\ Throws(changeListeners[1])
    /\ last.op = "store"
    /\ last.call.name = "completeSession"
    /\ events = << <<"tool_completed", "P">>, <<"session_completed", "P">> >>
    /\ Len(calls) = 4
    /\ calls[2].listener = "broadcast"
    /\ calls[4].listener = "broadcast"
    /\ sessions["P"].status = "completed"

-----------------------------------------------------------------------------
\* C21: when a poll reads new content, the store after the poll is the store
\* after the well-formed records of that content, each handed to the
\* reconciler in file order and none skipped because an earlier line is no
\* JSON or decodes to null; and the offset of the file is its size.
WellFormed(line) == Parses(line) /\ ~IsNull(line)

RECURSIVE Reconciled(_, _, _, _, _)
Reconciled(w, filePath, lines, i, t) ==
    IF i > Len(lines) THEN w
    ELSE Reconciled(IF WellFormed(lines[i].line)
                    THEN processMessage(w, FileRecord(lines[i].line[1].rec),
                                        IsAgentPath(filePath), t)
                    ELSE w,
                    filePath, lines, i + 1, t)

ReadStep(l, pl) == l.op \in {"added", "changed"} /\ pl.outcome = "read"

C21_BadLineSkipped ==
    [][ReadStep(last', polled')
        => LET expected == Reconciled(Cur, polled'.path,
                                      Lines(polled'.content, 1, <<>>, <<>>), 1, now)
           IN /\ sessions' = expected.sessions
              /\ agentToSession' = expected.agentToSession
              /\ events' = expected.events
              /\ filePositions'[polled'.path] = ByteLen(files[polled'.path].content)]_vars

\* a poll has just read content whose first line is no record and whose
\* second line is a user record, and the record is in the session
C21_Witness ==
    /\ ReadStep(last, polled)
    /\ LET lines == Lines(polled.content, 1, <<>>, <<>>)
       IN /\ Len(lines) >= 2
          /\ ~WellFormed(lines[1].line)
          /\ WellFormed(lines[2].line)
          /\ lines[2].line[1].rec = "user"
    /\ "P" \in DOMAIN sessions
    /\ Len(sessions["P"].messages) = 1
    /\ events # <<>>

-----------------------------------------------------------------------------
\* C22: a record from the sub-agent subtree, or whose agentId is present and
\* differs from its sessionId, is keyed by its agentId, any other record by
\* its sessionId.  A record without a key changes nothing and emits nothing;
\* a record with a key (the records here carry a cwd) leaves the keyed
\* session in the store.
Key(data, agentPath) ==
    IF agentPath \/ (data.agentId # NULL /\ data.agentId # data.sessionId)
    THEN data.agentId
    ELSE data.sessionId

Untouched(id) ==
    /\ id \in DOMAIN sessions <=> id \in DOMAIN sessions'
    /\ id \in DOMAIN sessions => sessions'[id] = sessions[id]

NoKeyNoChange ==
    /\ sessions' = sessions
    /\ agentToSession' = agentToSession
    /\ events' = <<>>

ParentLinked(id, data, agentPath) ==
    /\ IsSubAgent(data, agentPath)
    /\ data.agentId # NULL
    /\ id = data.sessionId
    /\ id \in DOMAIN sessions
    /\ id \in DOMAIN sessions'
    /\ sessions'[id] = [sessions[id] EXCEPT !.subAgents = Append(@, data.agentId)]

-----------------------------------------------------------------------------
\* C23: a record or chunk that starts a tool for a session with an open tool
\* first completes the open tool (one entry for it, with status completed,
\* at the head of toolHistory, and a tool_completed event) and then opens
\* the new tool (a tool_started event); afterwards currentTool is the new
\* tool, running.  An open tool is always a running one.
StartedTool(l) ==
    CASE l.op = "record" /\ l.data.type = "assistant" /\ l.data.blocks # <<>>
           -> l.data.blocks[1].name
      [] l.op = "chunk" /\ l.data.type = "assistant" /\ l.data.content # <<>>
           -> l.data.content[1].name
      [] OTHER -> NULL

IsToolEvent(e) == e[1] \in {"tool_started", "tool_completed"}

C23_StartCompletesOpenTool ==
    [][/\ (/\ StartedTool(last') # NULL
           /\ "P" \in DOMAIN sessions
           /\ sessions["P"].currentTool # NoTool)
          => /\ sessions'["P"].currentTool
                  = [name |-> StartedTool(last'), status |-> "running"]
             /\ sessions'["P"].toolHistory
                  = FirstN(<<[name |-> sessions["P"].currentTool.name,
                              status |-> "completed"]>> \o sessions["P"].toolHistory,
                           MAX_TOOL_HISTORY)
             /\ SelectSeq(events', IsToolEvent)
                  = << <<"tool_completed", "P">>, <<"tool_started", "P">> >>
       /\ \A id \in DOMAIN sessions' :
            sessions'[id].currentTool # NoTool
              => sessions'[id].currentTool.status = "running"]_vars

\* Bash has just been started while Read was open: Read is at the head of the
\* history as completed and Bash is the open tool
C23_Witness ==
    /\ StartedTool(last) = "Bash"
    /\ "P" \in DOMAIN sessions
    /\ sessions["P"].currentTool = [name |-> "Bash", status |-> "running"]
    /\ sessions["P"].toolHistory # <<>>
    /\ sessions["P"].toolHistory[1] = [name |-> "Read", status |-> "completed"]
    /\ events = << <<"tool_completed", "P">>, <<"tool_started", "P">> >>

-----------------------------------------------------------------------------
\* C24: a tool_result record for a session with an open tool closes the tool
\* and puts an entry for it at the head of toolHistory, with status failed
\* when the record's error flag is set and completed otherwise; for a
\* session with no open tool it changes neither currentTool nor toolHistory
\* and emits no tool event.
ToolResultStep(l) == l.op = "record" /\ l.data.type = "tool_result"

C24_ToolResultClosesOpenTool ==
    [][(ToolResultStep(last') /\ last'.data.sessionId = "P" /\ "P" \in DOMAIN sessions)
        => /\ "P" \in DOMAIN sessions'
           /\ IF sessions["P"].currentTool # NoTool
              THEN /\ sessions'["P"].currentTool = NoTool
                   /\ sessions'["P"].toolHistory
                        = FirstN(<<[name |-> sessions["P"].currentTool.name,
                                    status |-> IF last'.data.is_error THEN "failed"
                                               ELSE "completed"]>>
                                 \o sessions["P"].toolHistory, MAX_TOOL_HISTORY)
                   /\ SelectSeq(events', IsToolEvent) = << <<"tool_completed", "P">> >>
              ELSE /\ sessions'["P"].currentTool = NoTool
                   /\ sessions'["P"].toolHistory = sessions["P"].toolHistory
                   /\ SelectSeq(events', IsToolEvent) = <<>>]_vars

\* a tool_result record with the error flag has just closed the open tool
C24_Witness ==
    /\ ToolResultStep(last)
    /\ last.data.is_error
    /\ "P" \in DOMAIN sessions
    /\ sessions["P"].currentTool = NoTool
    /\ Len(sessions["P"].toolHistory) = 2
    /\ sessions["P"].toolHistory[1].status = "failed"
    /\ sessions["P"].toolHistory[2].status = "completed"
    /\ events = << <<"tool_completed", "P">> >>

-----------------------------------------------------------------------------
\* C25: a sweep makes a session idle only if the session stays in the store,
\* was active, had no open tool and was inactive for longer than the idle
\* threshold; a sweep leaves the status of a completed session, of a session
\* in error and of a session with an open tool as it was; and no step other
\* than a sweep makes a session idle.
BecomesIdle(id) ==
    /\ id \in DOMAIN sessions'
    /\ sessions'[id].status = "idle"
    /\ id \in DOMAIN sessions => sessions[id].status # "idle"

C25_OnlySweepIdles ==
    [][IF last'.op = "sweep" /\ now' = now
       THEN \A id \in DOMAIN sessions :
              /\ BecomesIdle(id)
                   => /\ sessions[id].status = "active"
                      /\ sessions[id].currentTool = NoTool
                      /\ Inactive(id) > IDLE_THRESHOLD_MS
                      /\ Inactive(id) <= SESSION_TIMEOUT_MS
              /\ (/\ id \in DOMAIN sessions'
                  /\ \/ sessions[id].status \in {"completed", "error"}
                     \/ sessions[id].currentTool # NoTool)
                   => sessions'[id].status = sessions[id].status
       ELSE \A id \in Ids : ~BecomesIdle(id)]_vars

\* a sweep has just run over a session in error that was inactive for longer
\* than the idle threshold, and left it in error
C25_Witness ==
    /\ last.op = "sweep"
    /\ "P" \in DOMAIN sessions
    /\ sessions["P"].status = "error"
    /\ sessions["P"].currentTool = NoTool
    /\ Inactive("P") > IDLE_THRESHOLD_MS
    /\ events = <<>>

-----------------------------------------------------------------------------
\* C26: a tool_result or result record without cwd and gitBranch whose
\* effective id is not in the store, and a call of updateTokenUsage,
\* addMessage, updateSessionStatus, updateTodos, completeTool or
\* completeSession for an id that is not in the store, creates no session,
\* changes no field and emits no event.
BareResult(l) ==
    /\ l.op = "record"
    /\ l.data.type \in {"tool_result", "result"}
    /\ l.data.cwd = NULL
    /\ l.data.gitBranch = NULL
    /\ EffectiveSessionId(l.data, l.agentPath) # NULL
    /\ EffectiveSessionId(l.data, l.agentPath) \notin DOMAIN sessions

GuardedCall(l) ==
    /\ l.op = "store"
    /\ l.call.name \in {"updateTokenUsage", "addMessage", "updateSessionStatus",
                         "updateTodos", "completeTool", "completeSession"}
    /\ l.call.id \notin DOMAIN sessions

\* the record registers a sub-agent: it carries both ids and belongs to it
RegistersSubAgent(l) ==
    /\ IsSubAgent(l.data, l.agentPath)
    /\ l.data.sessionId # NULL
    /\ l.data.agentId # NULL

\* C26 as stated
C26_UnknownIdIgnored ==
    [][(BareResult(last') \/ GuardedCall(last')) => NoKeyNoChange]_vars

\* C26, amended: as stated, but for the records that register a sub-agent,
\* which create the sub-agent's session.
C26_UnknownIdIgnoredUnlessSubAgent ==
    [][/\ (BareResult(last') /\ ~RegistersSubAgent(last')) => NoKeyNoChange
       /\ GuardedCall(last') => NoKeyNoChange
       /\ (BareResult(last') /\ RegistersSubAgent(last'))
            => /\ last'.data.agentId \in DOMAIN sessions'
               /\ sessions'[last'.data.agentId].isSubAgent]_vars

\* a tool_result record for session A has just been processed while only P
\* is in the store: A is not there and nothing was emitted
C26_Witness ==
    /\ last.op = "record"
    /\ last.data.type = "tool_result"
    /\ EffectiveSessionId(last.data, last.agentPath) = "A"
    /\ ~RegistersSubAgent(last)
    /\ DOMAIN sessions = {"P"}
    /\ events = <<>>

-----------------------------------------------------------------------------
\* C27: when the stat or the read of a file fails in a poll, the poll leaves
\* the offset of the file and the store as they were and emits nothing.
\* The stat of handleFileChanged is only made for a file without an offset,
\* and a read that was not reached, because the sizes told the poll that
\* there is nothing to read, has not failed.
StatOrReadFailed ==
    /\ last'.op \in {"added", "changed"}
    /\ CASE last'.io = "added" -> last'.op = "added"
         [] last'.io = "changed" ->
                last'.op = "changed" /\ filePositions[last'.path] = NoPos
         [] last'.io \in {"stat", "read"} -> polled'.outcome = "none"
         [] OTHER -> FALSE

C27_FailedPollChangesNothing ==
    [][StatOrReadFailed
        => /\ filePositions'[last'.path] = filePositions[last'.path]
           /\ NoKeyNoChange]_vars

-----------------------------------------------------------------------------
\* C28: after a change of a todo file whose name leads with the id of a
\* session in the store and which holds a JSON list, the session's todos
\* are the items of that list, the empty list included (a session that never
\* had todos counts as having none).
C28_TodosAreLatestSnapshot ==
    (/\ last.op = "todo"
     /\ last.path = "P.json"
     /\ last.content.valid
     /\ "P" \in DOMAIN sessions)
    => sessions["P"].todos.items = last.content.todos

-----------------------------------------------------------------------------
\* C29: the offset of a tracked file goes down only in a poll that finds the
\* file shorter than the offset, and no line of a file that was never
\* truncated is handed to the reconciler twice - also when the watcher
\* reports as added a file that the startup scan has processed.
HandedOnce(p) ==
    \A i, j \in 1..Len(delivered[p]) : delivered[p][i] = delivered[p][j] => i = j

C29_OffsetNeverGoesBack ==
    [][\A p \in WatchPaths :
          /\ (filePositions[p] # NoPos /\ filePositions'[p] < filePositions[p])
               => (polled'.path = p /\ polled'.outcome = "shrunk")
          /\ ~files'[p].truncated => HandedOnce(p)']_vars

-----------------------------------------------------------------------------
\* C30: when the log has been polled up to its end and ends with a newline,
\* every well-formed record line in it was handed to processMessage exactly
\* once - also a line that was appended in two writes with a poll between
\* them.
PolledToEnd(p) ==
    /\ filePositions[p] = ByteLen(files[p].content)
    /\ watch[p] = "clean"
    /\ files[p].content # <<>>
    /\ ~MidLine(p)

C30_SplitLineProcessedOnce ==
    PolledToEnd("P.jsonl") =>
        LET lines == Lines(files["P.jsonl"].content, 1, <<>>, <<>>)
        IN \A i \in 1..Len(lines) :
              Parses(lines[i].line) => Count(delivered["P.jsonl"], lines[i].end) = 1

-----------------------------------------------------------------------------
\* C31: in every state the estimated cost of every session is the cost the
\* rate table gives for its current tokens under its current short model
\* name - also after the model is set on a session that has tokens.
C31_CostFollowsTokensAndModel ==
    \A id \in DOMAIN sessions :
        sessions[id].estimatedCost = estimateCost(sessions[id])

-----------------------------------------------------------------------------
\* C32: in every state, also after a sweep has removed sessions, every id in
\* the subAgents of a session and every key of the agent-id lookup map is
\* the id of a session in the store.
C32_LinksReferToSessions ==
    /\ \A id \in DOMAIN sessions :
          \A i \in 1..Len(sessions[id].subAgents) :
              sessions[id].subAgents[i] \in DOMAIN sessions
    /\ DOMAIN agentToSession \subseteq DOMAIN sessions

-----------------------------------------------------------------------------
\* C33: for every session id the first event that carries it is
\* session_created, and after a session_removed of the id no event carries
\* it before the next session_created of it.  An id is "out" before its
\* first event and after a session_removed, and "live" otherwise; the ids
\* that are live are those in the store, so each step is checked from the
\* store it starts in and must end in the store it leaves.
RECURSIVE EventPhase(_, _, _, _)
EventPhase(evs, i, id, ph) ==
    IF i > Len(evs) THEN ph
    ELSE IF evs[i][2] # id THEN EventPhase(evs, i + 1, id, ph)
    ELSE IF evs[i][1] = "session_created" THEN EventPhase(evs, i + 1, id, "live")
    ELSE IF ph = "out" THEN "bad"
    ELSE IF evs[i][1] = "session_removed" THEN EventPhase(evs, i + 1, id, "out")
    ELSE EventPhase(evs, i + 1, id, "live")

StorePhase(ss, id) == IF id \in DOMAIN ss THEN "live" ELSE "out"

C33_EventsFollowLifecycle ==
    [][\A id \in Ids :
          EventPhase(events', 1, id, StorePhase(sessions, id)) = StorePhase(sessions', id)]_vars

\* a sweep has removed session P and said so, while its sub-agent A stays
C33_Witness ==
    /\ last.op = "sweep"
    /\ \E i \in 1..Len(events) : events[i] = <<"session_removed", "P">>
    /\ "P" \notin DOMAIN sessions
    /\ "A" \in DOMAIN sessions
    /\ sessions["A"].parentSessionId = "P"

-----------------------------------------------------------------------------
\* C34: processing a record that is classified as a record of sub-agent A of
\* parent P leaves every field of session P as it was, except that A may be
\* appended to P.subAgents.
SubAgentRecordOfP(op) ==
    /\ op.op = "record"
    /\ IsSubAgent(op.data, op.agentPath)
    /\ op.data.agentId = "A"
    /\ op.data.sessionId = "P"

C34_SubAgentRecordSparesParent ==
    [][(SubAgentRecordOfP(last') /\ "P" \in DOMAIN sessions)
        => /\ "P" \in DOMAIN sessions'
           /\ sessions'["P"] = [sessions["P"] EXCEPT !.subAgents = sessions'["P"].subAgents]
           /\ sessions'["P"].subAgents \in
                 {sessions["P"].subAgents, Append(sessions["P"].subAgents, "A")}]_vars

\* an assistant record of sub-agent A with tokens and a tool has just been
\* processed at a time after the last activity of P, which has tokens and an
\* open tool of its own
C34_Witness ==
    /\ SubAgentRecordOfP(last)
    /\ last.data.type = "assistant"
    /\ "P" \in DOMAIN sessions
    /\ "A" \in DOMAIN sessions
    /\ sessions["P"].subAgents = <<"A">>
    /\ sessions["P"].tokens.input = 1
    /\ sessions["P"].currentTool.name = "Read"
    /\ sessions["P"].lastActivity < now
    /\ sessions["A"].tokens.output > 0
    /\ sessions["A"].currentTool.name = "Bash"

====
